---- MODULE Spec2Model ----
(***************************************************************************)
(* Vorratio: household inventory, batch consumption, stock correction,     *)
(* recipe cooking and shopping-list checkout, modelled from the API route  *)
(* handlers (Fastify + Prisma on SQLite).                                  *)
(*                                                                         *)
(* Quantities are JavaScript numbers in the code.  They are modelled as    *)
(* exact rationals <<numerator, denominator>> (denominator > 0, lowest     *)
(* terms), so that a conversion really multiplies and divides.             *)
(* Dates are integers (days).  A missing date is NoDate, a missing number  *)
(* is NullQ, a missing reference is NoId / NoArticle.                      *)
(***************************************************************************)
EXTENDS Integers, Sequences, FiniteSets, TLC

VARIABLES units, batches, logs, lists, mealPlan, last, reqs, handled

vars == <<units, batches, logs, lists, mealPlan, last, reqs, handled>>

(***************************************************************************)
(* Bounds of the model.                                                    *)
(***************************************************************************)
\* requests handled in one behaviour
MaxRequests == 3

(***************************************************************************)
(* Null values.                                                            *)
(***************************************************************************)
NoDate == -1
NoId == 0
NoArticle == "none"
NoUnit == "none"
NoGroup == "none"
NullQ == <<0, 0>>

(***************************************************************************)
(* Exact arithmetic on quantities.                                         *)
(***************************************************************************)
Abs(n) == IF n < 0 THEN -n ELSE n

RECURSIVE Gcd(_, _)
Gcd(a, b) == IF b = 0 THEN a ELSE Gcd(b, a % b)

Norm(n, d) ==
    LET g == Gcd(Abs(n), d)
    IN  IF n = 0 THEN <<0, 1>> ELSE <<n \div g, d \div g>>

Q(n) == <<n, 1>>
Zero == <<0, 1>>
RAdd(x, y) == Norm(x[1] * y[2] + y[1] * x[2], x[2] * y[2])
RSub(x, y) == Norm(x[1] * y[2] - y[1] * x[2], x[2] * y[2])
RMul(x, y) == Norm(x[1] * y[1], x[2] * y[2])
RDiv(x, y) == IF y[1] < 0 THEN Norm(-(x[1] * y[2]), x[2] * (-y[1]))
              ELSE Norm(x[1] * y[2], x[2] * y[1])
RNeg(x) == <<-x[1], x[2]>>
RLt(x, y) == x[1] * y[2] < y[1] * x[2]
RLe(x, y) == x[1] * y[2] <= y[1] * x[2]
RPos(x) == x[1] > 0
RMin(x, y) == IF RLt(y, x) THEN y ELSE x
RAbs(x) == <<Abs(x[1]), x[2]>>

\* JavaScript truthiness of a nullable number: null and 0 are falsy.
Truthy(x) == x # NullQ /\ x[1] # 0
\* a || b on nullable numbers
OrElse(a, b) == IF Truthy(a) THEN a ELSE b

RECURSIVE SumSeq(_)
SumSeq(s) == IF s = <<>> THEN Zero ELSE RAdd(Head(s), SumSeq(Tail(s)))

(***************************************************************************)
(* Units.  The table is seeded with DEFAULT_UNITS when it is empty.        *)
(***************************************************************************)
DEFAULT_UNITS ==
    << [id |-> 1, symbol |-> "pcs", conversionGroup |-> NoGroup,  conversionFactor |-> Q(1),
        convertsToUnitId |-> NoId, convertsToAmount |-> NullQ],
       [id |-> 2, symbol |-> "g",   conversionGroup |-> "mass",   conversionFactor |-> Q(1),
        convertsToUnitId |-> NoId, convertsToAmount |-> NullQ],
       [id |-> 3, symbol |-> "kg",  conversionGroup |-> "mass",   conversionFactor |-> Q(1000),
        convertsToUnitId |-> NoId, convertsToAmount |-> NullQ],
       [id |-> 4, symbol |-> "ml",  conversionGroup |-> "volume", conversionFactor |-> Q(1),
        convertsToUnitId |-> NoId, convertsToAmount |-> NullQ],
       [id |-> 5, symbol |-> "l",   conversionGroup |-> "volume", conversionFactor |-> Q(1000),
        convertsToUnitId |-> NoId, convertsToAmount |-> NullQ] >>

\* prisma.unit.findUnique({ where: { symbol } }): the row, or the empty set.
UnitBySymbol(us, sym) == {us[i] : i \in {j \in 1..Len(us) : us[j].symbol = sym}}

\* the included relation convertsToUnit: the symbol of the target row
ConvertsToSymbol(us, u) ==
    IF u.convertsToUnitId = NoId THEN NoUnit
    ELSE LET t == {i \in 1..Len(us) : us[i].id = u.convertsToUnitId}
         IN  IF t = {} THEN NoUnit ELSE us[CHOOSE i \in t : TRUE].symbol

\* mutant: the group rule applied to any two units that have a group
convertUnitsAnyGroup(us, quantity, fromUnit, toUnit) ==
    IF fromUnit.symbol = toUnit.symbol THEN quantity
    ELSE IF fromUnit.conversionGroup # NoGroup /\ toUnit.conversionGroup # NoGroup
    THEN RDiv(RMul(quantity, fromUnit.conversionFactor), toUnit.conversionFactor)
    ELSE IF fromUnit.convertsToUnitId # NoId /\ Truthy(fromUnit.convertsToAmount)
            /\ (ConvertsToSymbol(us, fromUnit) = toUnit.symbol
                \/ fromUnit.convertsToUnitId = toUnit.id)
    THEN RMul(quantity, fromUnit.convertsToAmount)
    ELSE IF toUnit.convertsToUnitId # NoId /\ Truthy(toUnit.convertsToAmount)
            /\ (ConvertsToSymbol(us, toUnit) = fromUnit.symbol
                \/ toUnit.convertsToUnitId = fromUnit.id)
    THEN RDiv(quantity, toUnit.convertsToAmount)
    ELSE NullQ

\* mutant: the group rule stopping at the base unit
convertUnitsToBase(us, quantity, fromUnit, toUnit) ==
    IF fromUnit.symbol = toUnit.symbol THEN quantity
    ELSE IF fromUnit.conversionGroup # NoGroup
            /\ fromUnit.conversionGroup = toUnit.conversionGroup
    THEN RMul(quantity, fromUnit.conversionFactor)
    ELSE IF fromUnit.convertsToUnitId # NoId /\ Truthy(fromUnit.convertsToAmount)
            /\ (ConvertsToSymbol(us, fromUnit) = toUnit.symbol
                \/ fromUnit.convertsToUnitId = toUnit.id)
    THEN RMul(quantity, fromUnit.convertsToAmount)
    ELSE IF toUnit.convertsToUnitId # NoId /\ Truthy(toUnit.convertsToAmount)
            /\ (ConvertsToSymbol(us, toUnit) = fromUnit.symbol
                \/ toUnit.convertsToUnitId = fromUnit.id)
    THEN RDiv(quantity, toUnit.convertsToAmount)
    ELSE NullQ

convertUnits(us, quantity, fromUnit, toUnit) ==
    IF fromUnit.symbol = toUnit.symbol THEN quantity
    ELSE IF fromUnit.conversionGroup # NoGroup
            /\ fromUnit.conversionGroup = toUnit.conversionGroup
    THEN RDiv(RMul(quantity, fromUnit.conversionFactor), toUnit.conversionFactor)
    ELSE IF fromUnit.convertsToUnitId # NoId /\ Truthy(fromUnit.convertsToAmount)
            /\ (ConvertsToSymbol(us, fromUnit) = toUnit.symbol
                \/ fromUnit.convertsToUnitId = toUnit.id)
    THEN RMul(quantity, fromUnit.convertsToAmount)
    ELSE IF toUnit.convertsToUnitId # NoId /\ Truthy(toUnit.convertsToAmount)
            /\ (ConvertsToSymbol(us, toUnit) = fromUnit.symbol
                \/ toUnit.convertsToUnitId = fromUnit.id)
    THEN RDiv(quantity, toUnit.convertsToAmount)
    ELSE NullQ

convertQuantityBetweenUnits(us, quantity, fromSymbol, toSymbol) ==
    IF fromSymbol = toSymbol THEN quantity
    ELSE LET f == UnitBySymbol(us, fromSymbol)
             t == UnitBySymbol(us, toSymbol)
         IN  IF f = {} \/ t = {} THEN NullQ
             ELSE convertUnits(us, quantity, CHOOSE u \in f : TRUE, CHOOSE u \in t : TRUE)

(***************************************************************************)
(* The catalog: articles and recipes are rows the CRUD routes maintain;    *)
(* every specification below runs against this fixed catalog.              *)
(***************************************************************************)
Articles == {"a1", "a2"}

Article(a) ==
    IF a = "a1"
    THEN [id |-> "a1", defaultUnit |-> "kg", category |-> "flour", defaultExpiryDays |-> 0,
          minStock |-> Q(3), packageSize |-> Q(1), packageUnit |-> "kg",
          isConsumable |-> TRUE]
    ELSE [id |-> "a2", defaultUnit |-> "pcs", category |-> "egg", defaultExpiryDays |-> 7,
          minStock |-> NullQ, packageSize |-> Q(6), packageUnit |-> "pcs",
          isConsumable |-> TRUE]

\* RecipeIngredient rows, in the order the query returns them
Recipes == {"r1", "r2"}

Recipe(r) ==
    IF r = "r1"
    THEN [id |-> "r1", servings |-> 2, ingredients |->
           << [id |-> "i1", articleId |-> "a1", categoryMatch |-> NoArticle, quantity |-> Q(1000), unit |-> "g",
               isOptional |-> FALSE],
              [id |-> "i2", articleId |-> "a2", categoryMatch |-> NoArticle, quantity |-> Q(9), unit |-> "pcs",
               isOptional |-> TRUE],
              [id |-> "i3", articleId |-> "a2", categoryMatch |-> NoArticle, quantity |-> Q(2), unit |-> "pcs",
               isOptional |-> FALSE] >>]
    ELSE [id |-> "r2", servings |-> 1, ingredients |->
           << [id |-> "i4", articleId |-> NoArticle, categoryMatch |-> "flour", quantity |-> Q(500), unit |-> "g",
               isOptional |-> FALSE],
              [id |-> "i5", articleId |-> "a2", categoryMatch |-> NoArticle, quantity |-> Q(1), unit |-> "g",
               isOptional |-> FALSE],
              [id |-> "i6", articleId |-> NoArticle, categoryMatch |-> NoArticle, quantity |-> Q(3), unit |-> "g",
               isOptional |-> TRUE] >>]

(***************************************************************************)
(* Batches and the FIFO query.                                             *)
(***************************************************************************)
\* new Date(): rows are stamped in the order they are created
Now(bs) == 100 + Len(bs)

Positive(bs, a) == {i \in 1..Len(bs) : bs[i].articleId = a /\ RPos(bs[i].quantity)}

RECURSIVE SumQuantity(_, _)
SumQuantity(bs, ids) ==
    IF ids = {} THEN Zero
    ELSE LET i == CHOOSE j \in ids : TRUE
         IN  RAdd(bs[i].quantity, SumQuantity(bs, ids \ {i}))

\* the article's computed stock: sum of its batches with quantity > 0
Stock(bs, a) == SumQuantity(bs, Positive(bs, a))

\* orderBy: [{ expiryDate: 'asc' }, { purchaseDate: 'asc' }] as SQLite evaluates it:
\* ORDER BY expiryDate ASC, purchaseDate ASC, where NULL sorts before every value.
FifoBefore(x, y) ==
    \/ x.expiryDate < y.expiryDate
    \/ x.expiryDate = y.expiryDate /\ x.purchaseDate < y.purchaseDate

\* The rows of a findMany in an order the ORDER BY allows (rows with equal keys
\* come in an order the query does not fix).
FifoOrders(bs) ==
    LET n == Len(bs)
    IN  {o \in [1..n -> 1..n] :
            /\ \A i, j \in 1..n : i # j => o[i] # o[j]
            /\ \A i, j \in 1..n : i < j => ~FifoBefore(bs[o[j]], bs[o[i]])}

\* mutant: the query without its quantity > 0 filter
FifoQueryAll(order, bs, a) ==
    LET keep(i) == bs[i].articleId = a
    IN  SelectSeq(order, keep)

\* findMany({ where: { articleId, quantity: { gt: 0 } }, orderBy: [...] })
FifoQuery(order, bs, a) ==
    LET keep(i) == bs[i].articleId = a /\ RPos(bs[i].quantity)
    IN  SelectSeq(order, keep)

\* mutant: the loop without Math.min, taking all that remains from the first batch
RECURSIVE ConsumeLoopNoMin(_, _, _, _, _, _, _)
ConsumeLoopNoMin(order, read, bs, lg, remaining, source, recipeId) ==
    IF order = <<>> \/ ~RPos(remaining)
    THEN [batches |-> bs, logs |-> lg, remaining |-> remaining]
    ELSE LET id == Head(order)
             toConsume == remaining
         IN  ConsumeLoopNoMin(Tail(order), read,
                 [bs EXCEPT ![id].quantity = RSub(read[id].quantity, toConsume)],
                 Append(lg, [articleId |-> read[id].articleId, batchId |-> id,
                             quantity |-> toConsume, source |-> source,
                             recipeId |-> recipeId, consumedAt |-> Now(bs)]),
                 RSub(remaining, toConsume), source, recipeId)

\* the consumption loop shared by consume, correct-stock and cook:
\* for (const batch of batches) { if (remaining <= 0) break; ... }
\* every decrement writes batch.quantity - toConsume from the row as it was read
RECURSIVE ConsumeLoop(_, _, _, _, _, _, _)
ConsumeLoop(order, read, bs, lg, remaining, source, recipeId) ==
    IF order = <<>> \/ ~RPos(remaining)
    THEN [batches |-> bs, logs |-> lg, remaining |-> remaining]
    ELSE LET id == Head(order)
             toConsume == RMin(read[id].quantity, remaining)
         IN  ConsumeLoop(Tail(order), read,
                 [bs EXCEPT ![id].quantity = RSub(read[id].quantity, toConsume)],
                 Append(lg, [articleId |-> read[id].articleId, batchId |-> id,
                             quantity |-> toConsume, source |-> source,
                             recipeId |-> recipeId, consumedAt |-> Now(bs)]),
                 RSub(remaining, toConsume), source, recipeId)

(***************************************************************************)
(* Requests.  `last` records the request handled last: what was asked and  *)
(* the reply.                                                              *)
(***************************************************************************)
UndefQ == <<0, -1>>
UndefDate == -2

Reply(op, status, fields) == [op |-> op, status |-> status] @@ fields

\* POST /batches
CreateBatch(a, quantity, purchaseDate, expiryDate, purchasePrice) ==
    /\ handled < MaxRequests
    /\ LET article == Article(a)
           baseDate == IF purchaseDate # UndefDate THEN purchaseDate ELSE Now(batches)
           finalExpiryDate ==
               IF expiryDate # NoDate THEN expiryDate
               ELSE IF article.defaultExpiryDays # 0
                    THEN baseDate + article.defaultExpiryDays
                    ELSE NoDate
           batch == [articleId |-> a, quantity |-> quantity, initialQuantity |-> quantity,
                     purchaseDate |-> baseDate, expiryDate |-> finalExpiryDate,
                     purchasePrice |-> purchasePrice]
       IN  /\ batches' = Append(batches, batch)
           /\ last' = Reply("createBatch", 201, [batchId |-> Len(batches) + 1])
    /\ handled' = handled + 1
    /\ UNCHANGED <<units, logs, lists, mealPlan, reqs>>

\* PUT /batches/:id
UpdateBatch(id, quantity, expiryDate) ==
    /\ handled < MaxRequests
    /\ id \in 1..Len(batches)
    /\ LET existingBatch == batches[id]
           newInitialQuantity ==
               IF quantity # UndefQ
                  /\ (existingBatch.quantity = existingBatch.initialQuantity
                      \/ RLt(existingBatch.initialQuantity, quantity))
               THEN quantity
               ELSE existingBatch.initialQuantity
           b1 == IF quantity # UndefQ
                 THEN [existingBatch EXCEPT !.quantity = quantity,
                                            !.initialQuantity = newInitialQuantity]
                 ELSE existingBatch
           b2 == IF expiryDate # UndefDate
                 THEN [b1 EXCEPT !.expiryDate = expiryDate]
                 ELSE b1
       IN  /\ batches' = [batches EXCEPT ![id] = b2]
           /\ last' = Reply("updateBatch", 200, [batchId |-> id])
    /\ handled' = handled + 1
    /\ UNCHANGED <<units, logs, lists, mealPlan, reqs>>

\* mutant: the new quantity forgets what was consumed
PurchaseQuantityReset(existingBatch, initialQuantity) == initialQuantity

\* the quantity PUT /batches/:id/purchase writes for a new initialQuantity
PurchaseQuantity(existingBatch, initialQuantity) ==
    LET consumed == RSub(existingBatch.initialQuantity, existingBatch.quantity)
        hasBeenConsumed == RPos(consumed)
    IN  IF ~hasBeenConsumed THEN initialQuantity ELSE RSub(initialQuantity, consumed)

\* PUT /batches/:id/purchase
UpdatePurchase(id, initialQuantity, purchasePrice) ==
    /\ handled < MaxRequests
    /\ id \in 1..Len(batches)
    /\ LET existingBatch == batches[id]
           consumed == RSub(existingBatch.initialQuantity, existingBatch.quantity)
           newQuantity == PurchaseQuantity(existingBatch, initialQuantity)
           b1 == IF initialQuantity # UndefQ
                 THEN [existingBatch EXCEPT !.initialQuantity = initialQuantity,
                                            !.quantity = newQuantity]
                 ELSE existingBatch
           b2 == IF purchasePrice # UndefQ
                 THEN [b1 EXCEPT !.purchasePrice = purchasePrice]
                 ELSE b1
       IN  IF initialQuantity # UndefQ /\ RPos(consumed) /\ RLt(newQuantity, Zero)
           THEN /\ last' = Reply("updatePurchase", 400,
                                 [batchId |-> id, initialQuantity |-> initialQuantity,
                                  consumed |-> consumed])
                /\ UNCHANGED batches
           ELSE /\ batches' = [batches EXCEPT ![id] = b2]
                /\ last' = Reply("updatePurchase", 200,
                                 [batchId |-> id, initialQuantity |-> initialQuantity,
                                  consumed |-> consumed])
    /\ handled' = handled + 1
    /\ UNCHANGED <<units, logs, lists, mealPlan, reqs>>

\* the ConsumptionLog rows written since the request started
NewLogs(lg, from) == SubSeq(lg, from + 1, Len(lg))

\* POST /articles/:id/consume
ConsumeFromArticle(a, quantity, source, order) ==
    /\ handled < MaxRequests
    /\ order \in FifoOrders(batches)
    /\ LET found == FifoQuery(order, batches, a)
           out == ConsumeLoop(found, batches, batches, logs, quantity, source, NoId)
       IN  IF ~RPos(quantity)
           THEN /\ last' = Reply("consumeFromArticle", 400,
                                 [articleId |-> a, quantity |-> quantity,
                                  error |-> "Quantity must be positive"])
                /\ UNCHANGED <<batches, logs>>
           ELSE IF Len(found) = 0
           THEN /\ last' = Reply("consumeFromArticle", 400,
                                 [articleId |-> a, quantity |-> quantity,
                                  error |-> "No stock available"])
                /\ UNCHANGED <<batches, logs>>
           ELSE /\ batches' = out.batches
                /\ logs' = out.logs
                /\ last' = Reply("consumeFromArticle", 200,
                                 [articleId |-> a, quantity |-> quantity,
                                  consumed |-> RSub(quantity, out.remaining),
                                  remaining |-> out.remaining,
                                  logs |-> NewLogs(out.logs, Len(logs))])
    /\ handled' = handled + 1
    /\ UNCHANGED <<units, lists, mealPlan, reqs>>

\* mutant: <= in place of <, rejecting a request for exactly what the batch holds
InsufficientStockOrEqual(batch, quantityInDefaultUnit) ==
    RLe(batch.quantity, quantityInDefaultUnit)

\* if (batch.quantity < quantityInDefaultUnit): the request asks for more than the batch holds
InsufficientStock(batch, quantityInDefaultUnit) == RLt(batch.quantity, quantityInDefaultUnit)

\* POST /batches/:id/consume
ConsumeFromBatch(id, quantity, unit, source) ==
    /\ handled < MaxRequests
    /\ IF id \notin 1..Len(batches)
       THEN /\ last' = Reply("consumeFromBatch", 404, [batchId |-> id, quantity |-> quantity])
            /\ UNCHANGED <<batches, logs>>
       ELSE LET batch == batches[id]
                defaultUnit == Article(batch.articleId).defaultUnit
                differs == unit # NoUnit /\ unit # defaultUnit
                converted == convertQuantityBetweenUnits(units, quantity, unit, defaultUnit)
                quantityInDefaultUnit == IF differs THEN converted ELSE quantity
            IN  IF differs /\ converted = NullQ
                THEN /\ last' = Reply("consumeFromBatch", 400,
                                      [batchId |-> id, quantity |-> quantity, unit |-> unit,
                                       error |-> "Cannot convert"])
                     /\ UNCHANGED <<batches, logs>>
                ELSE IF InsufficientStock(batch, quantityInDefaultUnit)
                THEN /\ last' = Reply("consumeFromBatch", 400,
                                      [batchId |-> id, quantity |-> quantity, unit |-> unit,
                                       error |-> "Insufficient stock"])
                     /\ UNCHANGED <<batches, logs>>
                ELSE /\ batches' = [batches EXCEPT ![id].quantity =
                                        RSub(batch.quantity, quantityInDefaultUnit)]
                     /\ logs' = Append(logs, [articleId |-> batch.articleId, batchId |-> id,
                                              quantity |-> quantityInDefaultUnit,
                                              source |-> source, recipeId |-> NoId,
                                              consumedAt |-> Now(batches)])
                     /\ last' = Reply("consumeFromBatch", 200,
                                      [batchId |-> id, quantity |-> quantity, unit |-> unit,
                                       converted |-> quantityInDefaultUnit])
    /\ handled' = handled + 1
    /\ UNCHANGED <<units, lists, mealPlan, reqs>>

\* mutant: the difference with its operands swapped
StockDifferenceSwapped(actualStock, currentStock) == RSub(currentStock, actualStock)

\* mutant: a correction that applies half of the difference
StockDifferenceHalved(actualStock, currentStock) ==
    RDiv(RSub(actualStock, currentStock), Q(2))

\* const difference = actualStock - currentStock
StockDifference(actualStock, currentStock) == RSub(actualStock, currentStock)

\* POST /articles/:id/correct-stock
CorrectStock(a, actualStock, order) ==
    /\ handled < MaxRequests
    /\ order \in FifoOrders(batches)
    /\ LET found == FifoQuery(order, batches, a)
           currentStock == SumSeq([i \in 1..Len(found) |-> batches[found[i]].quantity])
           difference == StockDifference(actualStock, currentStock)
           newBatch == [articleId |-> a, quantity |-> difference,
                        initialQuantity |-> difference, purchaseDate |-> Now(batches),
                        expiryDate |-> NoDate, purchasePrice |-> NullQ]
           out == ConsumeLoop(found, batches, batches, logs, RAbs(difference),
                              "CORRECTION", NoId)
       IN  IF RLt(actualStock, Zero)
           THEN /\ last' = Reply("correctStock", 400,
                                 [articleId |-> a, actualStock |-> actualStock])
                /\ UNCHANGED <<batches, logs>>
           ELSE IF difference = Zero
           THEN /\ last' = Reply("correctStock", 200,
                                 [articleId |-> a, actualStock |-> actualStock,
                                  message |-> "Stock already matches",
                                  currentStock |-> currentStock])
                /\ UNCHANGED <<batches, logs>>
           ELSE IF RPos(difference)
           THEN /\ batches' = Append(batches, newBatch)
                /\ logs' = Append(logs, [articleId |-> a, batchId |-> Len(batches) + 1,
                                         quantity |-> RNeg(difference),
                                         source |-> "CORRECTION", recipeId |-> NoId,
                                         consumedAt |-> Now(batches)])
                /\ last' = Reply("correctStock", 200,
                                 [articleId |-> a, actualStock |-> actualStock,
                                  message |-> "Stock increased",
                                  previousStock |-> currentStock,
                                  newStock |-> actualStock, difference |-> difference])
           ELSE /\ batches' = out.batches
                /\ logs' = out.logs
                /\ last' = Reply("correctStock", 200,
                                 [articleId |-> a, actualStock |-> actualStock,
                                  message |-> "Stock decreased",
                                  previousStock |-> currentStock,
                                  newStock |-> actualStock, difference |-> difference,
                                  logs |-> NewLogs(out.logs, Len(logs))])
    /\ handled' = handled + 1
    /\ UNCHANGED <<units, lists, mealPlan, reqs>>

\* prisma.article.findFirst({ where: { category, batches: { some: { quantity: { gt: 0 } } } } })
\* (the catalog has one article per category, so at most one row matches)
CategoryArticles(bs, category) ==
    {a \in Articles : Article(a).category = category /\ Positive(bs, a) # {}}

\* the article an ingredient resolves to, or NoArticle
ResolveArticle(bs, ing) ==
    IF ing.articleId # NoArticle THEN ing.articleId
    ELSE IF ing.categoryMatch # NoArticle /\ CategoryArticles(bs, ing.categoryMatch) # {}
    THEN CHOOSE a \in CategoryArticles(bs, ing.categoryMatch) : TRUE
    ELSE NoArticle

\* one pass of the loop over recipe.ingredients in POST /recipes/:id/cook
RECURSIVE CookLoop(_, _, _, _, _, _, _, _)
CookLoop(ings, portion, order, recipeId, bs, lg, consumed, missing) ==
    IF ings = <<>>
    THEN [batches |-> bs, logs |-> lg, consumed |-> consumed, missing |-> missing]
    ELSE LET ing == Head(ings)
             recipeQuantity == RMul(ing.quantity, portion)
             articleId == ResolveArticle(bs, ing)
             articleUnit == Article(articleId).defaultUnit
             converted == convertQuantityBetweenUnits(units, recipeQuantity, ing.unit, articleUnit)
             neededQuantity == IF ing.unit # articleUnit THEN converted ELSE recipeQuantity
             found == FifoQuery(order, bs, articleId)
             totalStock == SumSeq([i \in 1..Len(found) |-> bs[found[i]].quantity])
             out == ConsumeLoop(found, bs, bs, lg, neededQuantity, "RECIPE", recipeId)
         IN  IF articleId = NoArticle
             THEN CookLoop(Tail(ings), portion, order, recipeId, bs, lg, consumed,
                      Append(missing, [articleId |-> NoArticle, reason |-> "no article"]))
             ELSE IF ing.unit # articleUnit /\ converted = NullQ
             THEN CookLoop(Tail(ings), portion, order, recipeId, bs, lg, consumed,
                      Append(missing, [articleId |-> articleId, reason |-> "Cannot convert"]))
             ELSE IF RLt(totalStock, neededQuantity)
             THEN CookLoop(Tail(ings), portion, order, recipeId, bs, lg, consumed,
                      Append(missing, [articleId |-> articleId, reason |-> "insufficient"]))
             ELSE CookLoop(Tail(ings), portion, order, recipeId, out.batches, out.logs,
                      Append(consumed, [articleId |-> articleId, consumed |-> neededQuantity]),
                      missing)

\* POST /recipes/:id/cook (the recipe's ingredients where isOptional is false)
CookRecipe(r, servings, order) ==
    /\ handled < MaxRequests
    /\ order \in FifoOrders(batches)
    /\ LET recipe == Recipe(r)
           required(ing) == ~ing.isOptional
           portionMultiplier == IF servings # 0 THEN RDiv(Q(servings), Q(recipe.servings))
                                ELSE Q(1)
           out == CookLoop(SelectSeq(recipe.ingredients, required), portionMultiplier,
                           order, r, batches, logs, <<>>, <<>>)
       IN  /\ batches' = out.batches
           /\ logs' = out.logs
           /\ last' = Reply("cookRecipe", IF Len(out.missing) > 0 THEN 400 ELSE 200,
                            [recipeId |-> r, servings |-> servings,
                             success |-> (Len(out.missing) = 0),
                             missing |-> out.missing, consumed |-> out.consumed])
    /\ handled' = handled + 1
    /\ UNCHANGED <<units, lists, mealPlan, reqs>>

(***************************************************************************)
(* Spec: the inventory routes, one request at a time.                      *)
(***************************************************************************)
ExpiryInputs == {NoDate, 120}
PurchaseDateInputs == {UndefDate, 50}
BatchEdits == {<<Q(2), UndefDate>>, <<Q(5), NoDate>>}
PurchaseEdits == {Q(1), Q(4)}
ConsumeInputs == {Q(0), Q(2), Q(4)}
BatchConsumeInputs == {<<Q(1), NoUnit>>, <<Q(4), NoUnit>>, <<Q(500), "g">>, <<Q(1), "pcs">>}
StockInputs == {RNeg(Q(1)), Q(0), Q(2), Q(4)}
ServingsInputs == {0, 4}

NoRequest == [op |-> "none", status |-> 0]

Init ==
    /\ units = DEFAULT_UNITS
    /\ batches = <<>>
    /\ logs = <<>>
    /\ lists = <<>>
    /\ mealPlan = <<>>
    /\ reqs = <<>>
    /\ handled = 0
    /\ last = NoRequest

Next ==
    \/ \E a \in Articles, p \in PurchaseDateInputs, e \in ExpiryInputs :
          CreateBatch(a, Q(3), p, e, NullQ)
    \/ \E id \in 1..Len(batches), x \in BatchEdits :
          UpdateBatch(id, x[1], x[2])
    \/ \E id \in 1..Len(batches), n \in PurchaseEdits :
          UpdatePurchase(id, n, UndefQ)
    \/ \E a \in Articles, q \in ConsumeInputs, o \in FifoOrders(batches) :
          ConsumeFromArticle(a, q, "MANUAL", o)
    \/ \E id \in 1..(Len(batches) + 1), x \in BatchConsumeInputs :
          ConsumeFromBatch(id, x[1], x[2], "MANUAL")
    \/ \E a \in Articles, s \in StockInputs, o \in FifoOrders(batches) :
          CorrectStock(a, s, o)
    \/ \E r \in Recipes, s \in ServingsInputs, o \in FifoOrders(batches) :
          CookRecipe(r, s, o)

Spec == Init /\ [][Next]_vars

(***************************************************************************)
(* Properties of the inventory routes.  A step of request `op` is a step   *)
(* after which `last` holds the reply to `op`.                             *)
(***************************************************************************)
Handled(op) == handled' = handled + 1 /\ last'.op = op

LogQuantities(lg) == [i \in 1..Len(lg) |-> lg[i].quantity]

Decremented(i) == i \in 1..Len(batches) /\ batches'[i].quantity # batches[i].quantity

\* C1: whenever cookRecipe reports failure, no batch has been decremented and no
\* ConsumptionLog has been written by that call.
C1_CookAllOrNothing ==
    [][(Handled("cookRecipe") /\ ~last'.success) => (batches' = batches /\ logs' = logs)]_vars

NullsLastBefore(x, y) ==
    \/ x.expiryDate # NoDate /\ y.expiryDate = NoDate
    \/ x.expiryDate # NoDate /\ y.expiryDate # NoDate /\ x.expiryDate < y.expiryDate
    \/ x.expiryDate = y.expiryDate /\ x.purchaseDate < y.purchaseDate

\* C4: consumeFromArticle drains batches in the order (expiryDate ascending with
\* batches without expiry date last, then purchaseDate ascending): a batch is
\* decremented only if every batch before it in that order is at 0 afterwards, and
\* one log is written per decremented batch with the amount taken from it.
C4_FifoNullsLast ==
    [][(Handled("consumeFromArticle") /\ last'.status = 200) =>
         /\ \A i \in 1..Len(batches) : Decremented(i) =>
               \A j \in Positive(batches, last'.articleId) :
                   NullsLastBefore(batches[j], batches[i]) => batches'[j].quantity = Zero
         /\ \A i \in 1..Len(batches) : Decremented(i) =>
               Cardinality({k \in 1..Len(last'.logs) :
                   /\ last'.logs[k].batchId = i
                   /\ last'.logs[k].quantity =
                          RSub(batches[i].quantity, batches'[i].quantity)}) = 1
         /\ Len(last'.logs) = Cardinality({i \in 1..Len(batches) : Decremented(i)})]_vars

InCanonicalUnit(reply) ==
    LET defaultUnit == Article(batches[reply.batchId].articleId).defaultUnit
    IN  IF reply.unit = NoUnit \/ reply.unit = defaultUnit THEN reply.quantity
        ELSE convertQuantityBetweenUnits(units, reply.quantity, reply.unit, defaultUnit)

\* C6: consumeFromBatch applies fully or not at all: an unconvertible unit or a
\* (converted) quantity above the batch's quantity is rejected with batch and logs
\* unchanged; otherwise the batch loses exactly the converted quantity and exactly one
\* log with that quantity is added, in the same step.
C6_BatchConsumeAtomic ==
    [][(Handled("consumeFromBatch") /\ last'.status # 404) =>
         LET id == last'.batchId
             amount == InCanonicalUnit(last')
         IN  IF amount = NullQ \/ RLt(batches[id].quantity, amount)
             THEN /\ last'.status = 400
                  /\ batches' = batches
                  /\ logs' = logs
             ELSE /\ last'.status = 200
                  /\ batches' = [batches EXCEPT ![id].quantity =
                                     RSub(batches[id].quantity, amount)]
                  /\ Len(logs') = Len(logs) + 1
                  /\ SubSeq(logs', 1, Len(logs)) = logs
                  /\ logs'[Len(logs')].batchId = id
                  /\ logs'[Len(logs')].quantity = amount]_vars

\* a converted quantity (500 g of an article kept in kg) taken from a batch
C6_Witness ==
    /\ last.op = "consumeFromBatch"
    /\ last.status = 200
    /\ last.unit = "g"
    /\ last.converted = <<1, 2>>
    /\ logs[Len(logs)].quantity = <<1, 2>>

C10_RejectedWitness ==
    /\ last.op = "updatePurchase"
    /\ last.status = 400

(***************************************************************************)
(* Shopping lists: generation from meal plan, forecast and minimum stock.  *)
(***************************************************************************)
\* requests handled in one behaviour of the shopping routes
MaxShopRequests == 4

\* the rows of prisma.article.findMany, in table order
ArticleRows == <<"a1", "a2">>

\* Math.floor, Math.ceil and Math.round (half up) on exact quantities
Floor(x) == x[1] \div x[2]
Ceil(x) == -((-x[1]) \div x[2])
MathRound(x) == (2 * x[1] + x[2]) \div (2 * x[2])
\* Math.round(n * scale) / scale
RoundTo(n, scale) == Norm(MathRound(RMul(n, Q(scale))), scale)
roundQuantity(n) == RoundTo(n, 10000)

RECURSIVE Concat(_)
Concat(ss) == IF ss = <<>> THEN <<>> ELSE Head(ss) \o Concat(Tail(ss))

\* const key = ing.articleId || ing.categoryMatch || `unknown-${ing.id}`
IngredientKey(ing) ==
    IF ing.articleId # NoArticle THEN ing.articleId
    ELSE IF ing.categoryMatch # NoArticle THEN ing.categoryMatch
    ELSE "unknown-" \o ing.id

\* a variant that drops an ingredient whose unit cannot be converted
RecipeNeedDropped(ing, portionMultiplier) ==
    LET neededQuantity == RMul(ing.quantity, portionMultiplier)
        hasArticle == ing.articleId # NoArticle
        defaultUnit == IF hasArticle THEN Article(ing.articleId).defaultUnit ELSE NoUnit
        converted == convertQuantityBetweenUnits(units, neededQuantity, ing.unit, defaultUnit)
    IN  IF hasArticle /\ ing.unit # defaultUnit
        THEN IF converted # NullQ
             THEN [quantity |-> converted, unit |-> defaultUnit]
             ELSE [quantity |-> Zero, unit |-> ing.unit]
        ELSE IF hasArticle
        THEN [quantity |-> neededQuantity, unit |-> defaultUnit]
        ELSE [quantity |-> neededQuantity, unit |-> ing.unit]

\* the quantity and unit one ingredient adds to the demand: converted to the
\* article's defaultUnit when that succeeds, the recipe's own otherwise
RecipeNeed(ing, portionMultiplier) ==
    LET neededQuantity == RMul(ing.quantity, portionMultiplier)
        hasArticle == ing.articleId # NoArticle
        defaultUnit == IF hasArticle THEN Article(ing.articleId).defaultUnit ELSE NoUnit
        converted == convertQuantityBetweenUnits(units, neededQuantity, ing.unit, defaultUnit)
    IN  IF hasArticle /\ ing.unit # defaultUnit
        THEN IF converted # NullQ
             THEN [quantity |-> converted, unit |-> defaultUnit]
             ELSE [quantity |-> neededQuantity, unit |-> ing.unit]
        ELSE IF hasArticle
        THEN [quantity |-> neededQuantity, unit |-> defaultUnit]
        ELSE [quantity |-> neededQuantity, unit |-> ing.unit]

\* requiredIngredients.get(key) / .set(key, ...): the Map keeps insertion order
AddRequired(required, ing, portionMultiplier) ==
    LET key == IngredientKey(ing)
        need == RecipeNeed(ing, portionMultiplier)
        existing == {k \in 1..Len(required) : required[k].key = key}
    IN  IF existing # {}
        THEN LET k == CHOOSE j \in existing : TRUE
             IN  [required EXCEPT ![k].totalQuantity = RAdd(@, need.quantity)]
        ELSE Append(required, [key |-> key, articleId |-> ing.articleId,
                               categoryMatch |-> ing.categoryMatch, unit |-> need.unit,
                               totalQuantity |-> need.quantity, reason |-> "RECIPE"])

RECURSIVE RequiredOfRecipe(_, _, _)
RequiredOfRecipe(required, ings, portionMultiplier) ==
    IF ings = <<>> THEN required
    ELSE RequiredOfRecipe(AddRequired(required, Head(ings), portionMultiplier),
                          Tail(ings), portionMultiplier)

\* 2. Calculate required ingredients from meal plan
RECURSIVE RequiredIngredients(_, _)
RequiredIngredients(required, mealEntries) ==
    IF mealEntries = <<>> THEN required
    ELSE LET entry == Head(mealEntries)
             recipe == Recipe(entry.recipeId)
             portionMultiplier == RDiv(Q(entry.servings), Q(recipe.servings))
         IN  RequiredIngredients(
                 RequiredOfRecipe(required, recipe.ingredients, portionMultiplier),
                 Tail(mealEntries))

(***************************************************************************)
(* lib/forecast.ts: rolling average of the consumption history.            *)
(***************************************************************************)
\* lookbackDays = 30
LookbackDays == 30
\* daysUntilEmpty = null
NoDays == -1

\* one element of getConsumptionForecasts for article a
ForecastOf(bs, lg, a, forecastDays) ==
    LET lookbackDate == Now(bs) - LookbackDays
        mine(l) == l.articleId = a /\ l.consumedAt >= lookbackDate
        consumptionLogs == SelectSeq(lg, mine)
        totalConsumed ==
            SumSeq([i \in 1..Len(consumptionLogs) |-> consumptionLogs[i].quantity])
        currentStock == Stock(bs, a)
        averagePerDay == RDiv(totalConsumed, Q(LookbackDays))
        daysUntilEmpty ==
            IF RPos(averagePerDay) /\ RPos(currentStock)
            THEN Floor(RDiv(currentStock, averagePerDay))
            ELSE IF RLe(currentStock, Zero) THEN 0 ELSE NoDays
        neededForPeriod == RMul(averagePerDay, Q(forecastDays))
        shortfall == RSub(neededForPeriod, currentStock)
        recommendedPurchase == IF RPos(shortfall) THEN shortfall ELSE Zero
    IN  [articleId |-> a, daysUntilEmpty |-> daysUntilEmpty,
         averagePerDay |-> averagePerDay, currentStock |-> currentStock,
         recommendedPurchase |-> Q(Ceil(recommendedPurchase))]

\* the comparator of forecasts.sort: by daysUntilEmpty, null last
ForecastBefore(x, y) ==
    /\ x.daysUntilEmpty # NoDays
    /\ (y.daysUntilEmpty = NoDays \/ x.daysUntilEmpty < y.daysUntilEmpty)

RECURSIVE InsertForecast(_, _)
InsertForecast(sorted, f) ==
    IF sorted = <<>> THEN <<f>>
    ELSE IF ForecastBefore(f, Head(sorted)) THEN <<f>> \o sorted
    ELSE <<Head(sorted)>> \o InsertForecast(Tail(sorted), f)

RECURSIVE SortForecasts(_, _)
SortForecasts(sorted, fs) ==
    IF fs = <<>> THEN sorted
    ELSE SortForecasts(InsertForecast(sorted, Head(fs)), Tail(fs))

getConsumptionForecasts(bs, lg, forecastDays) ==
    LET consumable(a) == Article(a).isConsumable
        articles == SelectSeq(ArticleRows, consumable)
    IN  SortForecasts(<<>>, [i \in 1..Len(articles) |->
                                ForecastOf(bs, lg, articles[i], forecastDays)])

\* forecastDays = differenceInDays(planUntilDate, shopDate)
getForecastedShoppingItems(bs, lg, shopDate, planUntilDate) ==
    LET forecasts == getConsumptionForecasts(bs, lg, planUntilDate - shopDate)
        recommended(f) == RPos(f.recommendedPurchase)
        kept == SelectSeq(forecasts, recommended)
    IN  [i \in 1..Len(kept) |-> [articleId |-> kept[i].articleId,
                                 quantity |-> kept[i].recommendedPurchase]]

(***************************************************************************)
(* POST /shopping-lists/generate                                           *)
(***************************************************************************)
\* articles of allArticlesWithMinStock whose minStock is set in minStockMap
MinStockArticles == {a \in Articles : Truthy(Article(a).minStock)}

\* the articles that have an entry in stockMap and packageInfoMap
TrackedArticles(required) ==
    ({required[i].articleId : i \in 1..Len(required)} \ {NoArticle}) \cup MinStockArticles

\* calculateRecommendedPacks: how many packages cover neededQuantity
calculateRecommendedPacks(tracked, articleId, neededQuantity, neededUnit) ==
    IF articleId = NoArticle THEN 1
    ELSE IF articleId \notin tracked \/ RLe(Article(articleId).packageSize, Zero) THEN 1
    ELSE LET pkgInfo == Article(articleId)
             converted == convertQuantityBetweenUnits(units, pkgInfo.packageSize,
                                                      pkgInfo.packageUnit, neededUnit)
             packageSizeInNeededUnit ==
                 IF pkgInfo.packageUnit # neededUnit THEN converted ELSE pkgInfo.packageSize
         IN  IF pkgInfo.packageUnit # neededUnit /\ converted = NullQ THEN 1
             ELSE Ceil(RDiv(neededQuantity, packageSizeInNeededUnit))

\* stockMap.get(a) || 0, minStockMap.get(a) || 0, forecastMap.get(a) || 0
StockOf(bs, tracked, a) == IF a \in tracked THEN Stock(bs, a) ELSE Zero
MinStockOf(a) == IF a \in MinStockArticles THEN Article(a).minStock ELSE Zero
ForecastNeedOf(forecastedItems, a) ==
    LET fi == {i \in 1..Len(forecastedItems) : forecastedItems[i].articleId = a}
    IN  IF fi = {} THEN Zero ELSE forecastedItems[CHOOSE i \in fi : TRUE].quantity

\* the row itemsToCreate.push(...) adds
ItemRow(tracked, articleId, customName, totalNeed, unit, reason) ==
    << [articleId |-> articleId, customName |-> customName,
        neededQuantity |-> RoundTo(totalNeed, 100),
        recommendedPacks |-> calculateRecommendedPacks(tracked, articleId, totalNeed, unit),
        reason |-> reason] >>

\* if (totalNeed > 0) { itemsToCreate.push(...) }
PushItem(tracked, articleId, customName, totalNeed, unit, reason) ==
    IF RPos(totalNeed)
    THEN ItemRow(tracked, articleId, customName, totalNeed, unit, reason)
    ELSE <<>>

\* First, process all required ingredients from recipes
ItemFromRecipe(bs, tracked, forecastedItems, req) ==
    PushItem(tracked, req.articleId,
             IF req.articleId # NoArticle THEN req.articleId ELSE req.categoryMatch,
             IF req.articleId = NoArticle THEN roundQuantity(req.totalQuantity)
             ELSE roundQuantity(RSub(RAdd(RAdd(req.totalQuantity,
                                               ForecastNeedOf(forecastedItems, req.articleId)),
                                          MinStockOf(req.articleId)),
                                     StockOf(bs, tracked, req.articleId))),
             req.unit, req.reason)

\* mutant: the forecast loop without its processedArticles check
ItemFromForecastAgain(bs, tracked, processedArticles, f) ==
    PushItem(tracked, f.articleId, NoArticle,
             roundQuantity(RSub(RAdd(f.quantity, MinStockOf(f.articleId)),
                                StockOf(bs, tracked, f.articleId))),
             IF f.articleId \in tracked THEN Article(f.articleId).defaultUnit
             ELSE "pcs",
             "FORECAST")

\* Then, add articles that have forecasted consumption but weren't in recipes
ItemFromForecast(bs, tracked, processedArticles, f) ==
    IF f.articleId \in processedArticles THEN <<>>
    ELSE PushItem(tracked, f.articleId, NoArticle,
                  roundQuantity(RSub(RAdd(f.quantity, MinStockOf(f.articleId)),
                                     StockOf(bs, tracked, f.articleId))),
                  IF f.articleId \in tracked THEN Article(f.articleId).defaultUnit
                  ELSE "pcs",
                  "FORECAST")

\* Finally, add low stock items that weren't covered by recipes or forecast
ItemFromMinStock(bs, tracked, processedArticles, article) ==
    IF article.minStock # NullQ /\ article.id \notin processedArticles
       /\ Truthy(article.minStock) /\ RLt(Stock(bs, article.id), article.minStock)
    THEN ItemRow(tracked, article.id, NoArticle,
                 roundQuantity(RSub(article.minStock, Stock(bs, article.id))),
                 article.defaultUnit, "LOW_STOCK")
    ELSE <<>>

RequiredArticles(required) == {required[i].articleId : i \in 1..Len(required)} \ {NoArticle}

\* 6. Calculate what needs to be purchased: the three loops in order
ItemsOfDemand(bs, required, forecastedItems, tracked) ==
    Concat([i \in 1..Len(required) |->
               ItemFromRecipe(bs, tracked, forecastedItems, required[i])])
    \o Concat([i \in 1..Len(forecastedItems) |->
               ItemFromForecast(bs, tracked, RequiredArticles(required), forecastedItems[i])])
    \o Concat([i \in 1..Len(ArticleRows) |->
               ItemFromMinStock(bs, tracked,
                   RequiredArticles(required)
                     \cup {forecastedItems[k].articleId : k \in 1..Len(forecastedItems)},
                   Article(ArticleRows[i]))])

TrackedDemand(bs, required, forecastedItems) ==
    ItemsOfDemand(bs, required, forecastedItems, TrackedArticles(required))

\* mealEntries: date in [shopDate, planUntil] and completedAt null
MealEntries(mp, shopDate, planUntil) ==
    LET inRange(e) == e.date >= shopDate /\ e.date <= planUntil /\ e.completedAt = NoDate
    IN  SelectSeq(mp, inRange)

\* the rows itemsToCreate collects
ItemsToCreate(bs, lg, mp, shopDate, planUntil) ==
    TrackedDemand(bs, RequiredIngredients(<<>>, MealEntries(mp, shopDate, planUntil)),
                  getForecastedShoppingItems(bs, lg, shopDate, planUntil))

\* take: 10 -- the last purchases the price average looks at
PriceHistory == 10

\* the article's batches with a purchase price, newest purchase first, at most PriceHistory
PricedBatches(bs, a) ==
    LET priced == {i \in 1..Len(bs) : bs[i].articleId = a /\ bs[i].purchasePrice # NullQ}
    IN  IF Cardinality(priced) <= PriceHistory THEN priced
        ELSE CHOOSE t \in SUBSET priced :
                 /\ Cardinality(t) = PriceHistory
                 /\ \A i \in t, j \in priced \ t : bs[i].purchaseDate >= bs[j].purchaseDate

RECURSIVE SumPrice(_, _)
SumPrice(bs, ids) ==
    IF ids = {} THEN Zero
    ELSE LET i == CHOOSE j \in ids : TRUE
         IN  RAdd(OrElse(bs[i].purchasePrice, Zero), SumPrice(bs, ids \ {i}))

\* mutant: an unknown price reported as 0
EstimatedPriceZero(bs, item) ==
    IF item.articleId = NoArticle THEN Zero
    ELSE LET batchesWithPrice == PricedBatches(bs, item.articleId)
             avgPricePerPack == RDiv(SumPrice(bs, batchesWithPrice),
                                     Q(Cardinality(batchesWithPrice)))
         IN  IF batchesWithPrice = {} THEN Zero
             ELSE RoundTo(RMul(avgPricePerPack, Q(item.recommendedPacks)), 100)

\* 7. estimated price: average price per pack times recommendedPacks, or null
EstimatedPrice(bs, item) ==
    IF item.articleId = NoArticle THEN NullQ
    ELSE LET batchesWithPrice == PricedBatches(bs, item.articleId)
             avgPricePerPack == RDiv(SumPrice(bs, batchesWithPrice),
                                     Q(Cardinality(batchesWithPrice)))
         IN  IF batchesWithPrice = {} THEN NullQ
             ELSE RoundTo(RMul(avgPricePerPack, Q(item.recommendedPacks)), 100)

\* a ShoppingListItem row: the given columns and the schema's defaults
NewItem(articleId, customName, neededQuantity, recommendedPacks, reason, estimatedPrice) ==
    [articleId |-> articleId, customName |-> customName, neededQuantity |-> neededQuantity,
     recommendedPacks |-> recommendedPacks, reason |-> reason,
     estimatedPrice |-> estimatedPrice, isPurchased |-> FALSE, purchasedQuantity |-> NullQ,
     actualPrice |-> NullQ, purchaseDate |-> NoDate, expiryDate |-> NoDate]

\* 8. the rows created with the list: each item with its estimated price
ItemsWithPrices(bs, itemsToCreate) ==
    [i \in 1..Len(itemsToCreate) |->
        NewItem(itemsToCreate[i].articleId, itemsToCreate[i].customName,
                itemsToCreate[i].neededQuantity, itemsToCreate[i].recommendedPacks,
                itemsToCreate[i].reason, EstimatedPrice(bs, itemsToCreate[i]))]

\* mutant: generate returning the list an identical earlier call persisted
GenerateShoppingListOnce(shopDate, planUntil) ==
    /\ handled < MaxShopRequests
    /\ LET list == [shopDate |-> shopDate, planUntilDate |-> planUntil,
                    completedAt |-> NoDate, status |-> "ACTIVE",
                    items |-> ItemsWithPrices(batches,
                                  ItemsToCreate(batches, logs, mealPlan,
                                                shopDate, planUntil))]
           same == {l \in 1..Len(lists) : lists[l] = list}
       IN  IF same # {}
           THEN /\ UNCHANGED lists
                /\ last' = Reply("generate", 201, [listId |-> CHOOSE l \in same : TRUE])
           ELSE /\ lists' = Append(lists, list)
                /\ last' = Reply("generate", 201, [listId |-> Len(lists) + 1])
    /\ handled' = handled + 1
    /\ UNCHANGED <<units, batches, logs, mealPlan, reqs>>

\* POST /shopping-lists/generate
GenerateShoppingList(shopDate, planUntil) ==
    /\ handled < MaxShopRequests
    /\ lists' = Append(lists,
                       [shopDate |-> shopDate, planUntilDate |-> planUntil,
                        completedAt |-> NoDate, status |-> "ACTIVE",
                        items |-> ItemsWithPrices(batches,
                                      ItemsToCreate(batches, logs, mealPlan,
                                                    shopDate, planUntil))])
    /\ last' = Reply("generate", 201, [listId |-> Len(lists) + 1])
    /\ handled' = handled + 1
    /\ UNCHANGED <<units, batches, logs, mealPlan, reqs>>

\* POST /meal-plan
CreateMealPlanEntry(date, recipeId, servings) ==
    /\ handled < MaxShopRequests
    /\ IF recipeId \notin Recipes
       THEN /\ last' = Reply("createMealPlanEntry", 404, [recipeId |-> recipeId])
            /\ UNCHANGED mealPlan
       ELSE /\ mealPlan' = Append(mealPlan, [date |-> date, recipeId |-> recipeId,
                                             servings |-> servings, completedAt |-> NoDate])
            /\ last' = Reply("createMealPlanEntry", 201, [entryId |-> Len(mealPlan) + 1])
    /\ handled' = handled + 1
    /\ UNCHANGED <<units, batches, logs, lists, reqs>>

\* POST /shopping-lists/:id/items (a missing list violates the foreign key)
AddItem(id, articleId, quantity, estimatedPrice) ==
    /\ handled < MaxShopRequests
    /\ IF id \notin 1..Len(lists)
       THEN /\ last' = Reply("addItem", 500, [listId |-> id])
            /\ UNCHANGED lists
       ELSE /\ lists' = [lists EXCEPT ![id].items =
                            Append(@, NewItem(articleId, NoArticle, quantity, 1, "MANUAL",
                                              estimatedPrice))]
            /\ last' = Reply("addItem", 201, [listId |-> id,
                                              itemId |-> <<id, Len(lists[id].items) + 1>>])
    /\ handled' = handled + 1
    /\ UNCHANGED <<units, batches, logs, mealPlan, reqs>>

\* the item with the given id <<list, position>>, if it exists
ItemExists(itemId) ==
    /\ itemId[1] \in 1..Len(lists)
    /\ itemId[2] \in 1..Len(lists[itemId[1]].items)

\* mutant: the route without the recalculation of estimatedPrice
UpdateItemPriceKept(itemId, body) ==
    /\ handled < MaxShopRequests
    /\ IF ~ItemExists(itemId)
       THEN /\ last' = Reply("updateItem", 404, [itemId |-> itemId, body |-> body])
            /\ UNCHANGED lists
       ELSE LET has(f) == f \in DOMAIN body
                currentItem == lists[itemId[1]].items[itemId[2]]
                pricePerUnit == RDiv(currentItem.estimatedPrice, currentItem.neededQuantity)
                rescale == FALSE
                i1 == IF has("purchased")
                      THEN [currentItem EXCEPT !.isPurchased = body.purchased] ELSE currentItem
                i2 == IF has("quantity")
                      THEN [i1 EXCEPT !.purchasedQuantity = body.quantity] ELSE i1
                i3 == IF has("neededQuantity")
                      THEN [i2 EXCEPT !.neededQuantity = body.neededQuantity] ELSE i2
                i4 == IF has("purchasedQuantity")
                      THEN [i3 EXCEPT !.purchasedQuantity = body.purchasedQuantity] ELSE i3
                i5 == IF has("actualPrice")
                      THEN [i4 EXCEPT !.actualPrice = body.actualPrice] ELSE i4
                i6 == IF has("purchaseDate")
                      THEN [i5 EXCEPT !.purchaseDate = body.purchaseDate] ELSE i5
                i7 == IF has("expiryDate")
                      THEN [i6 EXCEPT !.expiryDate = body.expiryDate] ELSE i6
                i8 == IF rescale
                      THEN [i7 EXCEPT !.estimatedPrice =
                               RoundTo(RMul(pricePerUnit, body.neededQuantity), 100)]
                      ELSE i7
            IN  /\ lists' = [lists EXCEPT ![itemId[1]].items[itemId[2]] = i8]
                /\ last' = Reply("updateItem", 200, [itemId |-> itemId, body |-> body])
    /\ handled' = handled + 1
    /\ UNCHANGED <<units, batches, logs, mealPlan, reqs>>

\* PUT /shopping-lists/:listId/items/:itemId; body holds the fields the request carries
UpdateItem(itemId, body) ==
    /\ handled < MaxShopRequests
    /\ IF ~ItemExists(itemId)
       THEN /\ last' = Reply("updateItem", 404, [itemId |-> itemId, body |-> body])
            /\ UNCHANGED lists
       ELSE LET has(f) == f \in DOMAIN body
                currentItem == lists[itemId[1]].items[itemId[2]]
                pricePerUnit == RDiv(currentItem.estimatedPrice, currentItem.neededQuantity)
                rescale == /\ has("neededQuantity")
                           /\ currentItem.articleId # NoArticle
                           /\ RPos(currentItem.neededQuantity)
                           /\ currentItem.estimatedPrice # NullQ
                i1 == IF has("purchased")
                      THEN [currentItem EXCEPT !.isPurchased = body.purchased] ELSE currentItem
                i2 == IF has("quantity")
                      THEN [i1 EXCEPT !.purchasedQuantity = body.quantity] ELSE i1
                i3 == IF has("neededQuantity")
                      THEN [i2 EXCEPT !.neededQuantity = body.neededQuantity] ELSE i2
                i4 == IF has("purchasedQuantity")
                      THEN [i3 EXCEPT !.purchasedQuantity = body.purchasedQuantity] ELSE i3
                i5 == IF has("actualPrice")
                      THEN [i4 EXCEPT !.actualPrice = body.actualPrice] ELSE i4
                i6 == IF has("purchaseDate")
                      THEN [i5 EXCEPT !.purchaseDate = body.purchaseDate] ELSE i5
                i7 == IF has("expiryDate")
                      THEN [i6 EXCEPT !.expiryDate = body.expiryDate] ELSE i6
                i8 == IF rescale
                      THEN [i7 EXCEPT !.estimatedPrice =
                               RoundTo(RMul(pricePerUnit, body.neededQuantity), 100)]
                      ELSE i7
            IN  /\ lists' = [lists EXCEPT ![itemId[1]].items[itemId[2]] = i8]
                /\ last' = Reply("updateItem", 200, [itemId |-> itemId, body |-> body])
    /\ handled' = handled + 1
    /\ UNCHANGED <<units, batches, logs, mealPlan, reqs>>

\* mutant: the completedAt check dropped
AlreadyCompletedIgnored(list) == FALSE

\* if (list.completedAt)
AlreadyCompleted(list) == list.completedAt # NoDate

\* the batch POST /shopping-lists/:id/complete creates for one item
BatchOfItem(item, now) ==
    LET quantity == OrElse(item.purchasedQuantity, item.neededQuantity)
    IN  [articleId |-> item.articleId, quantity |-> quantity, initialQuantity |-> quantity,
         purchaseDate |-> IF item.purchaseDate # NoDate THEN item.purchaseDate ELSE now,
         expiryDate |-> item.expiryDate,
         purchasePrice |-> OrElse(item.actualPrice, item.estimatedPrice)]

\* include: { items: { where: { isPurchased: true, articleId: { not: null } } } }
PurchasedItems(list) ==
    LET bought(item) == item.isPurchased /\ item.articleId # NoArticle
    IN  SelectSeq(list.items, bought)

\* POST /shopping-lists/:id/complete
CompleteShoppingList(id) ==
    /\ handled < MaxShopRequests
    /\ IF id \notin 1..Len(lists)
       THEN /\ last' = Reply("completeShoppingList", 404, [listId |-> id])
            /\ UNCHANGED <<batches, lists>>
       ELSE IF AlreadyCompleted(lists[id])
       THEN /\ last' = Reply("completeShoppingList", 400, [listId |-> id])
            /\ UNCHANGED <<batches, lists>>
       ELSE LET items == PurchasedItems(lists[id])
                created == [i \in 1..Len(items) |-> BatchOfItem(items[i], Now(batches))]
            IN  /\ batches' = batches \o created
                /\ lists' = [lists EXCEPT ![id].completedAt = Now(batches \o created)]
                /\ last' = Reply("completeShoppingList", 200, [listId |-> id])
    /\ handled' = handled + 1
    /\ UNCHANGED <<units, logs, mealPlan, reqs>>

(***************************************************************************)
(* SpecShop: the shopping routes, one request at a time.                   *)
(***************************************************************************)
ShopDate == 100
PlanUntil == 107
MealDates == {103, 120}
PricedPurchases == {Q(2)}
ItemInputs == {<<"a2", Q(6), Q(5)>>, <<NoArticle, Q(1), NullQ>>}
ItemEdits ==
    { [purchased |-> TRUE],
      [purchased |-> TRUE, purchasedQuantity |-> Q(0)],
      [purchased |-> TRUE, purchasedQuantity |-> RNeg(Q(1))],
      [purchased |-> TRUE, quantity |-> Q(2), actualPrice |-> Q(0), expiryDate |-> 130],
      [neededQuantity |-> Q(4)] }

NextShop ==
    \/ \E p \in PricedPurchases : CreateBatch("a1", Q(1), UndefDate, NoDate, p)
    \/ \E d \in MealDates, r \in Recipes : CreateMealPlanEntry(d, r, 4)
    \/ GenerateShoppingList(ShopDate, PlanUntil)
    \/ \E id \in 1..Len(lists), x \in ItemInputs : AddItem(id, x[1], x[2], x[3])
    \/ \E l \in 1..Len(lists), body \in ItemEdits :
          \E i \in 1..(Len(lists[l].items) + 1) : UpdateItem(<<l, i>>, body)
    \/ \E id \in 1..(Len(lists) + 1) : CompleteShoppingList(id)

SpecShop == Init /\ [][NextShop]_vars

(***************************************************************************)
(* Properties of shopping-list completion.                                 *)
(***************************************************************************)
\* a ?? b on nullable numbers
Coalesce(a, b) == IF a # NullQ THEN a ELSE b

\* the columns of a batch that completion derives from an item
PurchaseOf(batch) ==
    [articleId |-> batch.articleId, quantity |-> batch.quantity,
     initialQuantity |-> batch.initialQuantity, purchasePrice |-> batch.purchasePrice,
     expiryDate |-> batch.expiryDate]

\* C8: completing an active list creates exactly one batch for each item that is
\* purchased and linked to an article and none for any other item; the batch has
\* quantity = initialQuantity = purchasedQuantity when that is non-null (0 included)
\* and neededQuantity otherwise, purchasePrice = actualPrice when that is non-null
\* (0 included) and estimatedPrice otherwise, and the item's expiryDate; afterwards
\* the list's completedAt is non-null.
C8_CompleteCreatesBatches ==
    [][(Handled("completeShoppingList") /\ last'.status = 200)
       => LET list == lists[last'.listId]
              items == PurchasedItems(list)
              created == SubSeq(batches', Len(batches) + 1, Len(batches'))
          IN  /\ list.completedAt = NoDate
              /\ SubSeq(batches', 1, Len(batches)) = batches
              /\ Len(created) = Len(items)
              /\ \A i \in 1..Len(items) :
                    PurchaseOf(created[i]) =
                        [articleId |-> items[i].articleId,
                         quantity |-> Coalesce(items[i].purchasedQuantity,
                                               items[i].neededQuantity),
                         initialQuantity |-> Coalesce(items[i].purchasedQuantity,
                                                      items[i].neededQuantity),
                         purchasePrice |-> Coalesce(items[i].actualPrice,
                                                    items[i].estimatedPrice),
                         expiryDate |-> items[i].expiryDate]
              /\ lists'[last'.listId].completedAt # NoDate]_vars

\* C9: a complete request on a list whose completedAt is already set is rejected and
\* creates no batch; completedAt, once set, stays set, so repeated complete requests
\* on one list create its batches at most once.
C9_CompletedListRejected ==
    [][/\ \A id \in 1..Len(lists) :
             (Handled("completeShoppingList") /\ last'.listId = id
              /\ lists[id].completedAt # NoDate)
             => /\ last'.status = 400
                /\ batches' = batches
                /\ lists' = lists
       /\ \A id \in 1..Len(lists) :
             lists[id].completedAt # NoDate
             => /\ Len(lists') >= id
                /\ lists'[id].completedAt = lists[id].completedAt
       /\ (Handled("completeShoppingList") /\ batches' # batches)
             => lists[last'.listId].completedAt = NoDate]_vars

\* a completed list that holds a purchased item has been asked to complete again
C9_Witness ==
    /\ last.op = "completeShoppingList"
    /\ last.status = 400
    /\ PurchasedItems(lists[last.listId]) # <<>>
    /\ Len(batches) = Len(PurchasedItems(lists[last.listId]))

\* C11: in every state reachable through batch creation, batch edit, purchase edit,
\* consumption, stock correction, shopping-list item updates and shopping-list
\* completion, every batch satisfies 0 <= quantity <= initialQuantity and
\* initialQuantity > 0.
C11_BatchBounds ==
    \A i \in 1..Len(batches) :
        /\ RLe(Zero, batches[i].quantity)
        /\ RLe(batches[i].quantity, batches[i].initialQuantity)
        /\ RPos(batches[i].initialQuantity)

(***************************************************************************)
(* SpecConc: consume requests in flight together.  A handler runs up to    *)
(* its next await, then any other handler may run; `reqs` holds the        *)
(* handlers that are waiting, each with the rows it has read.              *)
(***************************************************************************)
RemoveAt(s, r) == SubSeq(s, 1, r - 1) \o SubSeq(s, r + 1, Len(s))

\* POST /articles/:id/consume up to the end of await prisma.batch.findMany
BeginConsumeFromArticle(a, quantity, source, order) ==
    /\ handled < MaxRequests
    /\ order \in FifoOrders(batches)
    /\ LET found == FifoQuery(order, batches, a)
       IN  IF ~RPos(quantity)
           THEN /\ last' = Reply("consumeFromArticle", 400,
                                 [articleId |-> a, quantity |-> quantity,
                                  error |-> "Quantity must be positive"])
                /\ UNCHANGED reqs
           ELSE IF Len(found) = 0
           THEN /\ last' = Reply("consumeFromArticle", 400,
                                 [articleId |-> a, quantity |-> quantity,
                                  error |-> "No stock available"])
                /\ UNCHANGED reqs
           ELSE /\ reqs' = Append(reqs, [op |-> "consumeFromArticle", pc |-> "update",
                                         articleId |-> a, quantity |-> quantity,
                                         source |-> source, found |-> found,
                                         read |-> batches, remaining |-> quantity,
                                         toConsume |-> Zero])
                /\ UNCHANGED last
    /\ handled' = handled + 1
    /\ UNCHANGED <<units, batches, logs, lists, mealPlan>>

\* one pass of the loop up to the end of await prisma.batch.update
ConsumeUpdateStep(r) ==
    /\ r \in 1..Len(reqs)
    /\ reqs[r].op = "consumeFromArticle" /\ reqs[r].pc = "update"
    /\ LET req == reqs[r]
           id == Head(req.found)
           toConsume == RMin(req.read[id].quantity, req.remaining)
       IN  /\ batches' = [batches EXCEPT ![id].quantity =
                             RSub(req.read[id].quantity, toConsume)]
           /\ reqs' = [reqs EXCEPT ![r].pc = "log", ![r].toConsume = toConsume]
    /\ UNCHANGED <<units, logs, lists, mealPlan, last, handled>>

\* the rest of the pass: await prisma.consumptionLog.create, remaining -= toConsume,
\* then the loop's exit test and, after the last pass, the reply
ConsumeLogStep(r) ==
    /\ r \in 1..Len(reqs)
    /\ reqs[r].op = "consumeFromArticle" /\ reqs[r].pc = "log"
    /\ LET req == reqs[r]
           id == Head(req.found)
           remaining == RSub(req.remaining, req.toConsume)
       IN  /\ logs' = Append(logs, [articleId |-> req.articleId, batchId |-> id,
                                    quantity |-> req.toConsume, source |-> req.source,
                                    recipeId |-> NoId, consumedAt |-> Now(batches)])
           /\ IF Tail(req.found) = <<>> \/ ~RPos(remaining)
              THEN /\ reqs' = RemoveAt(reqs, r)
                   /\ last' = Reply("consumeFromArticle", 200,
                                    [articleId |-> req.articleId, quantity |-> req.quantity,
                                     consumed |-> RSub(req.quantity, remaining),
                                     remaining |-> remaining])
              ELSE /\ reqs' = [reqs EXCEPT ![r].pc = "update", ![r].found = Tail(req.found),
                                           ![r].remaining = remaining]
                   /\ UNCHANGED last
    /\ UNCHANGED <<units, batches, lists, mealPlan, handled>>

\* POST /batches/:id/consume up to the start of await prisma.$transaction
BeginConsumeFromBatch(id, quantity, unit, source) ==
    /\ handled < MaxRequests
    /\ IF id \notin 1..Len(batches)
       THEN /\ last' = Reply("consumeFromBatch", 404, [batchId |-> id, quantity |-> quantity])
            /\ UNCHANGED reqs
       ELSE LET batch == batches[id]
                defaultUnit == Article(batch.articleId).defaultUnit
                differs == unit # NoUnit /\ unit # defaultUnit
                converted == convertQuantityBetweenUnits(units, quantity, unit, defaultUnit)
                quantityInDefaultUnit == IF differs THEN converted ELSE quantity
            IN  IF differs /\ converted = NullQ
                THEN /\ last' = Reply("consumeFromBatch", 400,
                                      [batchId |-> id, quantity |-> quantity, unit |-> unit,
                                       error |-> "Cannot convert"])
                     /\ UNCHANGED reqs
                ELSE IF InsufficientStock(batch, quantityInDefaultUnit)
                THEN /\ last' = Reply("consumeFromBatch", 400,
                                      [batchId |-> id, quantity |-> quantity, unit |-> unit,
                                       error |-> "Insufficient stock"])
                     /\ UNCHANGED reqs
                ELSE /\ reqs' = Append(reqs, [op |-> "consumeFromBatch", pc |-> "transaction",
                                              batchId |-> id, quantity |-> quantity,
                                              unit |-> unit, source |-> source,
                                              read |-> batch,
                                              toConsume |-> quantityInDefaultUnit])
                     /\ UNCHANGED last
    /\ handled' = handled + 1
    /\ UNCHANGED <<units, batches, logs, lists, mealPlan>>

\* prisma.$transaction([batch.update, consumptionLog.create]) and the reply
ConsumeTransactionStep(r) ==
    /\ r \in 1..Len(reqs)
    /\ reqs[r].op = "consumeFromBatch" /\ reqs[r].pc = "transaction"
    /\ LET req == reqs[r]
       IN  /\ batches' = [batches EXCEPT ![req.batchId].quantity =
                             RSub(req.read.quantity, req.toConsume)]
           /\ logs' = Append(logs, [articleId |-> req.read.articleId,
                                    batchId |-> req.batchId, quantity |-> req.toConsume,
                                    source |-> req.source, recipeId |-> NoId,
                                    consumedAt |-> Now(batches)])
           /\ last' = Reply("consumeFromBatch", 200,
                            [batchId |-> req.batchId, quantity |-> req.quantity,
                             unit |-> req.unit, converted |-> req.toConsume])
           /\ reqs' = RemoveAt(reqs, r)
    /\ UNCHANGED <<units, lists, mealPlan, handled>>

ConcConsumeInputs == {Q(2), Q(4)}
ConcBatchConsumeInputs == {<<Q(2), NoUnit>>, <<Q(500), "g">>}

NextConc ==
    \/ \E e \in ExpiryInputs : CreateBatch("a1", Q(3), UndefDate, e, NullQ)
    \/ \E q \in ConcConsumeInputs, o \in FifoOrders(batches) :
          BeginConsumeFromArticle("a1", q, "MANUAL", o)
    \/ \E r \in 1..Len(reqs) : ConsumeUpdateStep(r)
    \/ \E r \in 1..Len(reqs) : ConsumeLogStep(r)
    \/ \E id \in 1..Len(batches), x \in ConcBatchConsumeInputs :
          BeginConsumeFromBatch(id, x[1], x[2], "MANUAL")
    \/ \E r \in 1..Len(reqs) : ConsumeTransactionStep(r)

SpecConc == Init /\ [][NextConc]_vars

\* C2: under any interleaving of consume requests on one article, once they have all
\* been answered the quantities in the ConsumptionLogs they wrote add up to the total
\* decrease of the article's batch quantities, and at no time does the logged
\* consumption exceed the stock that was purchased.
C2_NoDoubleAllocation ==
    LET logged == SumSeq(LogQuantities(logs))
        purchased == SumSeq([i \in 1..Len(batches) |-> batches[i].initialQuantity])
        inStock == SumSeq([i \in 1..Len(batches) |-> batches[i].quantity])
    IN  /\ reqs = <<>> => logged = RSub(purchased, inStock)
        /\ RLe(logged, purchased)

(***************************************************************************)
(* SpecGen: shopping-list generation over purchases, consumption and the   *)
(* meal plan, one request at a time.                                       *)
(***************************************************************************)
\* purchases: article, quantity, price
GenPurchases ==
    { <<"a1", <<749, 250>>, NullQ>>, <<"a1", Q(1), Q(2)>>, <<"a1", <<1, 2>>, Q(5)>>,
      <<"a2", Q(60), Q(3)>> }
\* consumption: article, quantity
GenConsumptions == { <<"a1", Q(1)>>, <<"a2", Q(55)>> }

NextGen ==
    \/ \E x \in GenPurchases : CreateBatch(x[1], x[2], UndefDate, NoDate, x[3])
    \/ \E x \in GenConsumptions, o \in FifoOrders(batches) :
          ConsumeFromArticle(x[1], x[2], "MANUAL", o)
    \/ \E d \in MealDates, r \in Recipes : CreateMealPlanEntry(d, r, 4)
    \/ GenerateShoppingList(ShopDate, PlanUntil)

SpecGen == Init /\ [][NextGen]_vars

(***************************************************************************)
(* Properties of shopping-list generation.                                 *)
(***************************************************************************)
\* the items of the list a generate request has just persisted
GeneratedItems == lists'[last'.listId].items

\* C12: demand non-negativity: every item of a generated list has a stored
\* neededQuantity (after the 4-decimal and then the 2-decimal rounding) strictly
\* greater than 0.
C12_DemandPositive ==
    [][Handled("generate") =>
         \A i \in 1..Len(GeneratedItems) : RPos(GeneratedItems[i].neededQuantity)]_vars

\* the demand of the meal plan entries a generate request for the standard window reads
PlannedDemand == RequiredIngredients(<<>>, MealEntries(mealPlan, ShopDate, PlanUntil))

\* the unit a generated item's need is expressed in: the unit of the recipe demand
\* for a RECIPE item, the article's canonical unit otherwise
NeedUnit(item) ==
    LET req == {k \in 1..Len(PlannedDemand) : PlannedDemand[k].articleId = item.articleId}
    IN  IF item.reason = "RECIPE" /\ req # {}
        THEN PlannedDemand[CHOOSE k \in req : TRUE].unit
        ELSE Article(item.articleId).defaultUnit

\* the article's package size expressed in the unit of the item's need, or NullQ
PackageSizeInNeedUnit(item) ==
    convertQuantityBetweenUnits(units, Article(item.articleId).packageSize,
                                Article(item.articleId).packageUnit, NeedUnit(item))

\* C13: pack rounding: a generated item linked to an article whose package size can
\* be expressed in the need's unit has recommendedPacks = ceil(need / package size):
\* at least 1, enough packs to cover the need, and not one pack more than that (up to
\* the 2-decimal rounding of the stored need); an item without article, or whose
\* package unit cannot be converted into the need's unit, has recommendedPacks = 1.
C13_PackRounding ==
    [][Handled("generate") =>
         \A i \in 1..Len(GeneratedItems) :
             LET item == GeneratedItems[i]
             IN  IF item.articleId = NoArticle THEN item.recommendedPacks = 1
                 ELSE IF PackageSizeInNeedUnit(item) = NullQ THEN item.recommendedPacks = 1
                 ELSE /\ item.recommendedPacks >= 1
                      /\ RLe(item.neededQuantity,
                             RMul(Q(item.recommendedPacks), PackageSizeInNeedUnit(item)))
                      /\ RLt(RMul(Q(item.recommendedPacks - 1), PackageSizeInNeedUnit(item)),
                             RAdd(item.neededQuantity, <<1, 200>>))]_vars

\* what a generated item is made of
ItemContent(item) ==
    [articleId |-> item.articleId, customName |-> item.customName,
     neededQuantity |-> item.neededQuantity, recommendedPacks |-> item.recommendedPacks,
     reason |-> item.reason, estimatedPrice |-> item.estimatedPrice]

ItemContents(items) == {ItemContent(items[i]) : i \in 1..Len(items)}

Priced(a) == {i \in 1..Len(batches) : batches[i].articleId = a /\ batches[i].purchasePrice # NullQ}

RECURSIVE PriceSum(_)
PriceSum(ids) ==
    IF ids = {} THEN Zero
    ELSE LET i == CHOOSE j \in ids : TRUE
         IN  RAdd(batches[i].purchasePrice, PriceSum(ids \ {i}))

\* the sets of (up to) PriceHistory most recently purchased priced batches
MostRecentPriced(a) ==
    {recent \in SUBSET Priced(a) :
        /\ Cardinality(recent) = IF Cardinality(Priced(a)) <= PriceHistory
                                 THEN Cardinality(Priced(a)) ELSE PriceHistory
        /\ \A i \in recent, j \in Priced(a) \ recent :
               batches[i].purchaseDate >= batches[j].purchaseDate}

RecipeNeedOf(a) ==
    LET req == {k \in 1..Len(PlannedDemand) : PlannedDemand[k].articleId = a}
    IN  IF req = {} THEN Zero ELSE PlannedDemand[CHOOSE k \in req : TRUE].totalQuantity

ForecastedNeedOf(a) ==
    ForecastNeedOf(getForecastedShoppingItems(batches, logs, ShopDate, PlanUntil), a)

MinStockNeedOf(a) == IF Article(a).minStock = NullQ THEN Zero ELSE Article(a).minStock

NetNeed(a) ==
    roundQuantity(RSub(RAdd(RAdd(RecipeNeedOf(a), ForecastedNeedOf(a)), MinStockNeedOf(a)),
                       Stock(batches, a)))

\* C19: net need: for each article, generate computes totalNeed = recipeNeed +
\* forecastNeed + minStock - currentStock (absent terms counting as 0, currentStock
\* the sum of the article's batches with quantity > 0, rounded to 4 decimals), emits
\* an item for the article iff totalNeed > 0 and stores neededQuantity = totalNeed
\* rounded to 2 decimals.
C19_NetNeed ==
    [][Handled("generate") =>
         \A a \in Articles :
             LET items == {i \in 1..Len(GeneratedItems) : GeneratedItems[i].articleId = a}
             IN  /\ items # {} <=> RPos(NetNeed(a))
                 /\ \A i \in items :
                       GeneratedItems[i].neededQuantity = RoundTo(NetNeed(a), 100)]_vars

\* the reason the claimed branch order gives an item of article a
BranchOf(a) ==
    IF a \in RequiredArticles(PlannedDemand) THEN "RECIPE"
    ELSE IF RPos(ForecastedNeedOf(a)) THEN "FORECAST"
    ELSE "LOW_STOCK"

\* C20: a generated list holds at most one item per article, created by the first
\* branch that matches: RECIPE if a pending in-window recipe ingredient references the
\* article, else FORECAST if the forecast recommends a purchase for it, else LOW_STOCK.
C20_OneItemPerArticle ==
    [][Handled("generate") =>
         \A a \in Articles :
             LET items == {i \in 1..Len(GeneratedItems) : GeneratedItems[i].articleId = a}
             IN  /\ Cardinality(items) <= 1
                 /\ \A i \in items : GeneratedItems[i].reason = BranchOf(a)]_vars

\* an article that a planned recipe needs and the forecast recommends gets its one
\* item from the recipe branch, next to an item from another branch
C20_Witness ==
    /\ last.op = "generate"
    /\ \E a \in RequiredArticles(PlannedDemand) :
          /\ RPos(ForecastedNeedOf(a))
          /\ Cardinality({i \in 1..Len(lists[last.listId].items) :
                             lists[last.listId].items[i].articleId = a}) = 1
    /\ \E i \in 1..Len(lists[last.listId].items) :
          lists[last.listId].items[i].reason \in {"FORECAST", "LOW_STOCK"}

(***************************************************************************)
(* SpecUnits: the units routes.  Unit ids are the row numbers.             *)
(***************************************************************************)
\* requests handled in one behaviour of the units routes
MaxUnitRequests == 3

\* an id no unit row has
UnknownUnitId == 99

UnitById(us, id) == {us[i] : i \in {j \in 1..Len(us) : us[j].id = id}}

\* POST /units
CreateUnit(authenticated, symbol, conversionGroup, conversionFactor, convertsToUnitId, convertsToAmount) ==
    /\ handled < MaxUnitRequests
    /\ IF ~authenticated
       THEN /\ last' = Reply("createUnit", 401, [symbol |-> symbol])
            /\ UNCHANGED units
       ELSE IF UnitBySymbol(units, symbol) # {}
       THEN /\ last' = Reply("createUnit", 409, [symbol |-> symbol])
            /\ UNCHANGED units
       ELSE IF convertsToUnitId # NoId /\ UnitById(units, convertsToUnitId) = {}
       THEN /\ last' = Reply("createUnit", 400, [symbol |-> symbol])
            /\ UNCHANGED units
       ELSE /\ units' = Append(units,
                             [id |-> Len(units) + 1, symbol |-> symbol,
                              conversionGroup |-> conversionGroup,
                              conversionFactor |-> OrElse(conversionFactor, Q(1)),
                              convertsToUnitId |-> convertsToUnitId,
                              convertsToAmount |-> OrElse(convertsToAmount, NullQ)])
            /\ last' = Reply("createUnit", 201, [symbol |-> symbol])
    /\ handled' = handled + 1
    /\ UNCHANGED <<batches, logs, lists, mealPlan, reqs>>

\* PUT /units/:id; body holds the fields the request carries
UpdateUnit(authenticated, id, body) ==
    /\ handled < MaxUnitRequests
    /\ LET has(f) == f \in DOMAIN body
           row == {i \in 1..Len(units) : units[i].id = id}
           existing == units[CHOOSE i \in row : TRUE]
           u1 == IF has("symbol") THEN [existing EXCEPT !.symbol = body.symbol] ELSE existing
           u2 == IF has("conversionGroup")
                 THEN [u1 EXCEPT !.conversionGroup = body.conversionGroup] ELSE u1
           u3 == IF has("conversionFactor")
                 THEN [u2 EXCEPT !.conversionFactor = body.conversionFactor] ELSE u2
           u4 == IF has("convertsToUnitId")
                 THEN [u3 EXCEPT !.convertsToUnitId = body.convertsToUnitId] ELSE u3
           u5 == IF has("convertsToAmount")
                 THEN [u4 EXCEPT !.convertsToAmount = OrElse(body.convertsToAmount, NullQ)]
                 ELSE u4
       IN  IF ~authenticated
           THEN /\ last' = Reply("updateUnit", 401, [unitId |-> id])
                /\ UNCHANGED units
           ELSE IF row = {}
           THEN /\ last' = Reply("updateUnit", 404, [unitId |-> id])
                /\ UNCHANGED units
           ELSE IF has("symbol") /\ body.symbol # existing.symbol
                   /\ UnitBySymbol(units, body.symbol) # {}
           THEN /\ last' = Reply("updateUnit", 409, [unitId |-> id])
                /\ UNCHANGED units
           ELSE IF has("convertsToUnitId") /\ body.convertsToUnitId # NoId
                   /\ (UnitById(units, body.convertsToUnitId) = {}
                       \/ body.convertsToUnitId = id)
           THEN /\ last' = Reply("updateUnit", 400, [unitId |-> id])
                /\ UNCHANGED units
           ELSE /\ units' = [units EXCEPT ![CHOOSE i \in row : TRUE] = u5]
                /\ last' = Reply("updateUnit", 200, [unitId |-> id])
    /\ handled' = handled + 1
    /\ UNCHANGED <<batches, logs, lists, mealPlan, reqs>>

\* GET /units/convert?from=&to=&quantity=
ConvertRequest(from, to, quantity) ==
    /\ handled < MaxUnitRequests
    /\ LET fromUnit == UnitBySymbol(units, from)
           toUnit == UnitBySymbol(units, to)
           result == convertUnits(units, quantity, CHOOSE u \in fromUnit : TRUE,
                                  CHOOSE u \in toUnit : TRUE)
       IN  IF fromUnit = {} \/ toUnit = {}
           THEN last' = Reply("convert", 404,
                              [from |-> from, to |-> to, quantity |-> quantity])
           ELSE IF result = NullQ
           THEN last' = Reply("convert", 400,
                              [from |-> from, to |-> to, quantity |-> quantity,
                               result |-> NullQ])
           ELSE last' = Reply("convert", 200,
                              [from |-> from, to |-> to, quantity |-> quantity,
                               result |-> result])
    /\ handled' = handled + 1
    /\ UNCHANGED <<units, batches, logs, lists, mealPlan, reqs>>

\* new units: symbol, group, factor, target id, amount
UnitCreations ==
    { <<"sheet", NoGroup, Q(1), NoId, NullQ>>,
      <<"roll", NoGroup, Q(1), 6, Q(50)>>,
      <<"box", NoGroup, Q(1), 1, Q(10)>>,
      <<"lb", "mass", Q(500), NoId, NullQ>> }
\* edits: unit id and body
UnitEdits ==
    { <<1, [convertsToUnitId |-> 2, convertsToAmount |-> Q(50)]>>,
      <<2, [convertsToUnitId |-> 1, convertsToAmount |-> Q(3)]>>,
      <<6, [convertsToUnitId |-> 6, convertsToAmount |-> Q(2)]>>,
      <<6, [convertsToUnitId |-> UnknownUnitId]>> }
ConvertSymbols == {"pcs", "g", "kg", "ml", "sheet", "roll", "box", "lb"}
ConvertQuantities == {Q(2), <<1, 3>>}

NextUnits ==
    \/ \E auth \in BOOLEAN, x \in UnitCreations :
          CreateUnit(auth, x[1], x[2], x[3], x[4], x[5])
    \/ \E auth \in BOOLEAN, x \in UnitEdits : UpdateUnit(auth, x[1], x[2])
    \/ \E from \in ConvertSymbols, to \in ConvertSymbols, q \in ConvertQuantities :
          ConvertRequest(from, to, q)

SpecUnits == Init /\ [][NextUnits]_vars

(***************************************************************************)
(* Properties of unit conversion.                                          *)
(***************************************************************************)
\* the unit rows a convert request names
FromUnit(reply) == CHOOSE u \in UnitBySymbol(units, reply.from) : TRUE
ToUnit(reply) == CHOOSE u \in UnitBySymbol(units, reply.to) : TRUE

\* u has a custom conversion edge (target and amount) whose target is v
HasEdge(u, v) == u.convertsToUnitId = v.id /\ u.convertsToAmount # NullQ

SameGroup(u, v) == u.conversionGroup # NoGroup /\ u.conversionGroup = v.conversionGroup

\* the reference rule list, applied in order
ReferenceConvert(q, from, to) ==
    IF from.symbol = to.symbol THEN q
    ELSE IF SameGroup(from, to)
    THEN RDiv(RMul(q, from.conversionFactor), to.conversionFactor)
    ELSE IF HasEdge(from, to) THEN RMul(q, from.convertsToAmount)
    ELSE IF HasEdge(to, from) THEN RDiv(q, to.convertsToAmount)
    ELSE NullQ

\* C14: convertUnits(q, from, to) equals the reference rule list applied in order
\* (same symbol, shared non-null group, custom edge from -> to, custom edge to -> from,
\* otherwise not convertible); in particular two different units convert only when
\* they share a group or one has a custom edge to the other: no chain of custom
\* edges and no conversion across groups by their factors.
C14_ConvertRuleList ==
    [][(Handled("convert") /\ last'.status # 404) =>
         /\ last'.result = ReferenceConvert(last'.quantity, FromUnit(last'), ToUnit(last'))
         /\ last'.status = (IF last'.result = NullQ THEN 400 ELSE 200)
         /\ (last'.result # NullQ /\ last'.from # last'.to) =>
                \/ SameGroup(FromUnit(last'), ToUnit(last'))
                \/ HasEdge(FromUnit(last'), ToUnit(last'))
                \/ HasEdge(ToUnit(last'), FromUnit(last'))]_vars

\* box -> pcs -> g is a chain of two custom edges: box to g is not convertible
C14_Witness ==
    /\ last.op = "convert"
    /\ last.status = 400
    /\ last.from = "box" /\ last.to = "g"
    /\ HasEdge(FromUnit(last), CHOOSE u \in UnitBySymbol(units, "pcs") : TRUE)
    /\ HasEdge(CHOOSE u \in UnitBySymbol(units, "pcs") : TRUE, ToUnit(last))

\* C15: round trip within a conversion group: for two units A and B that share a
\* non-null conversion group, converting x from A to B succeeds and converting the
\* result back from B to A yields x (quantities are exact here, so the tolerance is 0).
C15_GroupRoundTrip ==
    [][(Handled("convert") /\ last'.status # 404
          /\ SameGroup(FromUnit(last'), ToUnit(last'))) =>
         /\ last'.status = 200
         /\ convertUnits(units, last'.result, ToUnit(last'), FromUnit(last'))
                = last'.quantity]_vars

\* convert(2, kg, g) = 2000 and convert(2000, g, kg) = 2
C15_Witness ==
    /\ last.op = "convert"
    /\ last.status = 200
    /\ last.from = "kg" /\ last.to = "g"
    /\ last.quantity = Q(2)
    /\ last.result = Q(2000)
    /\ convertUnits(units, Q(2000), ToUnit(last), FromUnit(last)) = Q(2)

\* C16: round trip over a custom conversion edge: for two distinct units A and B
\* that share no conversion group and are related by a custom one-hop edge (A to B,
\* B to A, or both), converting x from A to B succeeds and converting the result back
\* yields x.
C16_EdgeRoundTrip ==
    [][(Handled("convert") /\ last'.status # 404
          /\ last'.from # last'.to
          /\ ~SameGroup(FromUnit(last'), ToUnit(last'))
          /\ (HasEdge(FromUnit(last'), ToUnit(last'))
              \/ HasEdge(ToUnit(last'), FromUnit(last')))) =>
         /\ last'.status = 200
         /\ convertUnits(units, last'.result, ToUnit(last'), FromUnit(last'))
                = last'.quantity]_vars

(***************************************************************************)
(* Further properties of generation, the meal plan and the inventory.      *)
(***************************************************************************)
\* the quantity the generated list asks to buy of article a (0 without an item)
PurchaseFor(a) ==
    LET items == {i \in 1..Len(GeneratedItems) : GeneratedItems[i].articleId = a}
    IN  IF items = {} THEN Zero ELSE GeneratedItems[CHOOSE i \in items : TRUE].neededQuantity

\* averagePerDay x forecastDays for the standard window
ForecastedConsumption(a) ==
    RMul(ForecastOf(batches, logs, a, PlanUntil - ShopDate).averagePerDay,
         Q(PlanUntil - ShopDate))

\* C21: the generated purchase is sufficient for the plan: for every article,
\* currentStock + purchase >= recipeNeed + forecasted consumption over the planning
\* window + minStock, where purchase is the neededQuantity of the article's item.
C21_PurchaseSufficient ==
    [][Handled("generate") =>
         \A a \in Articles :
             RLe(RAdd(RAdd(RecipeNeedOf(a), ForecastedConsumption(a)), MinStockNeedOf(a)),
                 RAdd(Stock(batches, a), PurchaseFor(a)))]_vars

\* the (entry, ingredient) pairs of the pending entries in the standard window
DemandPairs ==
    {p \in (1..Len(mealPlan)) \X (1..3) :
        /\ mealPlan[p[1]].date >= ShopDate /\ mealPlan[p[1]].date <= PlanUntil
        /\ mealPlan[p[1]].completedAt = NoDate
        /\ p[2] <= Len(Recipe(mealPlan[p[1]].recipeId).ingredients)}

IngredientOf(p) == Recipe(mealPlan[p[1]].recipeId).ingredients[p[2]]

\* the article id if present, else the category string, else a per-ingredient key
DemandKey(ing) ==
    IF ing.articleId # NoArticle THEN <<"article", ing.articleId>>
    ELSE IF ing.categoryMatch # NoArticle THEN <<"category", ing.categoryMatch>>
    ELSE <<"ingredient", ing.id>>

\* the key of a row of the demand map, read back from the row
RowKey(row) ==
    IF row.articleId # NoArticle THEN <<"article", row.articleId>>
    ELSE IF row.categoryMatch # NoArticle THEN <<"category", row.categoryMatch>>
    ELSE <<"ingredient", SubSeq(row.key, 9, Len(row.key))>>

\* quantity x entry.servings / recipe.servings, in the article's unit when the
\* ingredient's unit converts to it and as it stands otherwise
Contribution(p) ==
    LET ing == IngredientOf(p)
        entry == mealPlan[p[1]]
        scaled == RDiv(RMul(ing.quantity, Q(entry.servings)), Q(Recipe(entry.recipeId).servings))
        converted == IF ing.articleId = NoArticle THEN NullQ
                     ELSE convertQuantityBetweenUnits(units, scaled, ing.unit,
                                                      Article(ing.articleId).defaultUnit)
    IN  IF ing.articleId # NoArticle /\ converted # NullQ THEN converted ELSE scaled

RECURSIVE SumContributions(_)
SumContributions(ps) ==
    IF ps = {} THEN Zero
    ELSE LET p == CHOOSE x \in ps : TRUE
         IN  RAdd(Contribution(p), SumContributions(ps \ {p}))

MealCompletionAlways(entry) == 200

\* if (entry.completedAt) return reply.status(400)
MealCompletion(entry) == IF entry.completedAt # NoDate THEN 400 ELSE 200

\* POST /meal-plan/:id/complete
CompleteMealPlanEntry(id) ==
    /\ handled < MaxShopRequests
    /\ IF id \notin 1..Len(mealPlan)
       THEN /\ last' = Reply("completeMeal", 404, [entryId |-> id])
            /\ UNCHANGED mealPlan
       ELSE IF MealCompletion(mealPlan[id]) = 400
       THEN /\ last' = Reply("completeMeal", 400, [entryId |-> id])
            /\ UNCHANGED mealPlan
       ELSE /\ mealPlan' = [mealPlan EXCEPT ![id].completedAt = Now(batches)]
            /\ last' = Reply("completeMeal", 200, [entryId |-> id])
    /\ handled' = handled + 1
    /\ UNCHANGED <<units, batches, logs, lists, reqs>>

\* POST /meal-plan/:id/uncomplete
UncompleteMealPlanEntry(id) ==
    /\ handled < MaxShopRequests
    /\ IF id \notin 1..Len(mealPlan)
       THEN /\ last' = Reply("uncompleteMeal", 404, [entryId |-> id])
            /\ UNCHANGED mealPlan
       ELSE IF mealPlan[id].completedAt = NoDate
       THEN /\ last' = Reply("uncompleteMeal", 400, [entryId |-> id])
            /\ UNCHANGED mealPlan
       ELSE /\ mealPlan' = [mealPlan EXCEPT ![id].completedAt = NoDate]
            /\ last' = Reply("uncompleteMeal", 200, [entryId |-> id])
    /\ handled' = handled + 1
    /\ UNCHANGED <<units, batches, logs, lists, reqs>>

\* planned meals: the first and the last day of the window and the days next to them
MealInputs == { <<100, "r1">>, <<107, "r2">>, <<99, "r2">>, <<108, "r1">> }

\* purchases: article, quantity
MealPurchases == { <<"a1", Q(1)>>, <<"a2", Q(60)>> }

NextMeal ==
    \/ \E x \in MealPurchases : CreateBatch(x[1], x[2], UndefDate, NoDate, NullQ)
    \/ \E x \in MealInputs : CreateMealPlanEntry(x[1], x[2], 4)
    \/ \E id \in 1..(Len(mealPlan) + 1) : CompleteMealPlanEntry(id)
    \/ \E id \in 1..(Len(mealPlan) + 1) : UncompleteMealPlanEntry(id)
    \/ GenerateShoppingList(ShopDate, PlanUntil)

SpecMeal == Init /\ [][NextMeal]_vars

\* the demand keys of the pending entries in the window
DemandKeys == {DemandKey(IngredientOf(p)) : p \in DemandPairs}

PairsOf(key) == {p \in DemandPairs : DemandKey(IngredientOf(p)) = key}

\* the key a generated RECIPE item stands for
ItemKey(item) ==
    IF item.articleId # NoArticle THEN <<"article", item.articleId>>
    ELSE IF item.customName # NoArticle THEN <<"category", item.customName>>
    ELSE <<"ingredient", "i6">>

\* what generate asks to buy for a key whose entries contribute SumContributions
ExpectedPurchase(key) ==
    LET total == SumContributions(PairsOf(key))
        need == IF key[1] # "article" THEN roundQuantity(total)
                ELSE roundQuantity(RSub(RAdd(RAdd(total, ForecastedNeedOf(key[2])),
                                             MinStockNeedOf(key[2])),
                                        Stock(batches, key[2])))
    IN  IF RPos(need) THEN RoundTo(need, 100) ELSE Zero

RecipeItems == {i \in 1..Len(GeneratedItems) : GeneratedItems[i].reason = "RECIPE"}

C23_CompletedWitness ==
    /\ last.op = "generate"
    /\ Len(mealPlan) = 1 /\ mealPlan[1].date = ShopDate /\ mealPlan[1].completedAt # NoDate
    /\ \A i \in 1..Len(lists[last.listId].items) :
           lists[last.listId].items[i].reason # "RECIPE"

(***************************************************************************)
(* Further properties of the inventory routes.                             *)
(***************************************************************************)
\* the logs a request has appended
AppendedLogs == SubSeq(logs', Len(logs) + 1, Len(logs'))

LogsExtended == Len(logs') >= Len(logs) /\ SubSeq(logs', 1, Len(logs)) = logs

\* a correction that found a surplus: one new batch and one negative log
SurplusEffect(a, difference) ==
    /\ Len(batches') = Len(batches) + 1
    /\ \A i \in 1..Len(batches) : batches'[i] = batches[i]
    /\ batches'[Len(batches')].articleId = a
    /\ batches'[Len(batches')].quantity = difference
    /\ batches'[Len(batches')].initialQuantity = difference
    /\ LogsExtended
    /\ Len(AppendedLogs) = 1
    /\ AppendedLogs[1].quantity = RNeg(difference)
    /\ AppendedLogs[1].source = "CORRECTION"
    /\ AppendedLogs[1].articleId = a
    /\ AppendedLogs[1].batchId = Len(batches')

\* a correction that found a deficit: no batch, positive logs summing to the deficit
DeficitEffect(a, difference) ==
    /\ Len(batches') = Len(batches)
    /\ LogsExtended
    /\ \A k \in 1..Len(AppendedLogs) :
           /\ RPos(AppendedLogs[k].quantity)
           /\ AppendedLogs[k].source = "CORRECTION"
           /\ AppendedLogs[k].articleId = a
    /\ SumSeq(LogQuantities(AppendedLogs)) = RAbs(difference)
    /\ \A i \in 1..Len(batches) :
           batches'[i].quantity =
              RSub(batches[i].quantity,
                   SumSeq(LogQuantities(SelectSeq(AppendedLogs,
                                                  LAMBDA l : l.batchId = i))))

\* a batch is decremented only when every batch before it in the stated order is empty
DrainedInFifoOrder(a) ==
    \A i \in 1..Len(batches) : Decremented(i) =>
        \A j \in Positive(batches, a) :
            NullsLastBefore(batches[j], batches[i]) => batches'[j].quantity = Zero

\* C24: correctStock with a surplus creates exactly one batch with quantity =
\* initialQuantity = difference and exactly one log with quantity -difference and
\* source CORRECTION, leaving every existing batch unchanged; with a deficit it
\* creates no batch and writes only positive CORRECTION logs that sum to |difference|,
\* decrementing batches in FIFO order.
C24_CorrectionEffects ==
    [][(Handled("correctStock") /\ last'.status = 200
          /\ last'.actualStock # Stock(batches, last'.articleId)) =>
         LET a == last'.articleId
             difference == RSub(last'.actualStock, Stock(batches, a))
         IN  IF RPos(difference)
             THEN SurplusEffect(a, difference)
             ELSE DeficitEffect(a, difference) /\ DrainedInFifoOrder(a)]_vars

\* a variant of UpdateConsumptionLogSchema that accepts every number as quantity
LogEditValidAny(body) == TRUE

\* UpdateConsumptionLogSchema: quantity: z.number().positive().optional()
LogEditValid(body) == "quantity" \in DOMAIN body => RPos(body.quantity)

\* PUT /consumption/:id
UpdateConsumptionLog(id, body) ==
    /\ handled < MaxRequests
    /\ IF ~LogEditValid(body)
       THEN /\ last' = Reply("updateConsumptionLog", 400, [logId |-> id])
            /\ UNCHANGED logs
       ELSE IF id \notin 1..Len(logs)
       THEN /\ last' = Reply("updateConsumptionLog", 404, [logId |-> id])
            /\ UNCHANGED logs
       ELSE /\ logs' = [logs EXCEPT ![id] =
                           [f \in DOMAIN @ |-> IF f \in DOMAIN body THEN body[f] ELSE @[f]]]
            /\ last' = Reply("updateConsumptionLog", 200, [logId |-> id])
    /\ handled' = handled + 1
    /\ UNCHANGED <<units, batches, lists, mealPlan, reqs>>

\* request bodies of PUT /consumption/:id
LogEdits == { [quantity |-> Q(1)], [quantity |-> RNeg(Q(1))], [consumedAt |-> 90] }

LogStockInputs == {Q(0), Q(2)}

NextLog ==
    \/ \E a \in Articles, e \in ExpiryInputs : CreateBatch(a, Q(3), UndefDate, e, NullQ)
    \/ \E a \in Articles, o \in FifoOrders(batches) : ConsumeFromArticle(a, Q(4), "MANUAL", o)
    \/ \E id \in 1..Len(batches), x \in BatchConsumeInputs :
          ConsumeFromBatch(id, x[1], x[2], "MANUAL")
    \/ \E a \in Articles, n \in LogStockInputs, o \in FifoOrders(batches) :
          CorrectStock(a, n, o)
    \/ \E r \in Recipes, o \in FifoOrders(batches) : CookRecipe(r, 2, o)
    \/ \E id \in 1..(Len(logs) + 1), body \in LogEdits : UpdateConsumptionLog(id, body)

SpecLog == Init /\ [][NextLog]_vars

\* the logs whose quantity a step has written: the new ones and the edited ones
WrittenLogs ==
    {k \in 1..Len(logs') : k > Len(logs) \/ logs'[k].quantity # logs[k].quantity}

\* C25: every ConsumptionLog with quantity < 0 has source CORRECTION and was written
\* by a surplus stock correction; consumeFromArticle, consumeFromBatch, cookRecipe,
\* deficit corrections and consumption-log edits only write log quantities > 0.
C25_NegativeLogsAreSurplusCorrections ==
    /\ [](\A k \in 1..Len(logs) :
             RLt(logs[k].quantity, Zero) => logs[k].source = "CORRECTION")
    /\ [][/\ \A k \in 1..Len(logs) : k <= Len(logs') /\ logs'[k].source = logs[k].source
          /\ \A k \in WrittenLogs :
                IF last'.op = "correctStock" /\ last'.message = "Stock increased"
                THEN /\ RLt(logs'[k].quantity, Zero)
                     /\ logs'[k].source = "CORRECTION"
                     /\ k > Len(logs)
                ELSE RPos(logs'[k].quantity)]_vars

\* the log of a surplus correction, still negative after an edit of its date
C25_Witness ==
    /\ last.op = "updateConsumptionLog"
    /\ last.status = 200
    /\ logs[last.logId].consumedAt = 90
    /\ RLt(logs[last.logId].quantity, Zero)
    /\ logs[last.logId].source = "CORRECTION"

\* a deficit correction, a manual consumption and a cooked recipe have written logs
C25_FlowsWitness ==
    /\ \E k \in 1..Len(logs) : logs[k].source = "RECIPE"
    /\ Len(logs) >= 2

\* what the logs record as taken from batch i
LoggedFrom(i) == SumSeq(LogQuantities(SelectSeq(logs, LAMBDA l : l.batchId = i)))

\* C26: in every consumption flow each batch decrement and its ConsumptionLog record
\* are applied as one atomic unit: in no observable state has a batch been
\* decremented while the corresponding log has not been written.
C26_DecrementLogged ==
    \A i \in 1..Len(batches) :
        RLe(RSub(batches[i].initialQuantity, batches[i].quantity), LoggedFrom(i))

\* the place of batch i in the order o
PlaceIn(o, i) == CHOOSE k \in 1..Len(o) : o[k] = i

\* what the batches of article a before batch i in the order o hold together
HeldBefore(o, a, i) ==
    SumQuantity(batches, {j \in Positive(batches, a) : PlaceIn(o, j) < PlaceIn(o, i)})

\* the FIFO rule: batch i gives what is still missing after the batches before it
TakenFrom(o, a, q, i) ==
    IF i \notin Positive(batches, a) THEN Zero
    ELSE LET missing == RSub(q, HeldBefore(o, a, i))
         IN  IF RPos(missing) THEN RMin(batches[i].quantity, missing) ELSE Zero

\* the (batch, quantity) pairs of the logs the rule writes, in the order o
ExpectedPairs(o, a, q) ==
    LET touched(i) == RPos(TakenFrom(o, a, q, i))
        drained == SelectSeq(o, touched)
    IN  [k \in 1..Len(drained) |-> <<drained[k], TakenFrom(o, a, q, drained[k])>>]

\* the (batch, quantity) pairs of the logs a step has written for article a
WrittenPairs(a) ==
    LET ofArticle(l) == l.articleId = a
        written == SelectSeq(AppendedLogs, ofArticle)
    IN  [k \in 1..Len(written) |-> <<written[k].batchId, written[k].quantity>>]

\* the step removes q from article a by the FIFO rule over the order o
RemovedByFifo(o, a, q) ==
    /\ \A i \in 1..Len(batches) :
           batches[i].articleId = a =>
               batches'[i].quantity = RSub(batches[i].quantity, TakenFrom(o, a, q, i))
    /\ WrittenPairs(a) = ExpectedPairs(o, a, q)

\* the removals (article, quantity) a step of one of the three flows performs, and
\* the source tag of the flow
Removals ==
    IF last'.op = "consumeFromArticle" /\ last'.status = 200
       /\ RLe(last'.quantity, Stock(batches, last'.articleId))
    THEN {<<last'.articleId, last'.quantity>>}
    ELSE IF last'.op = "correctStock" /\ last'.status = 200
            /\ RLt(last'.actualStock, Stock(batches, last'.articleId))
    THEN {<<last'.articleId, RSub(Stock(batches, last'.articleId), last'.actualStock)>>}
    ELSE IF last'.op = "cookRecipe"
    THEN {<<last'.consumed[k].articleId, last'.consumed[k].consumed>> :
             k \in 1..Len(last'.consumed)}
    ELSE {}

FlowTag ==
    IF last'.op = "correctStock" THEN "CORRECTION"
    ELSE IF last'.op = "cookRecipe" THEN "RECIPE" ELSE "MANUAL"

\* C27: all stock-reducing flows apply the same FIFO rule: from the same batches of
\* an article and for the same quantity q <= stock, consumeFromArticle(q),
\* correctStock(stock - q) and cooking an ingredient that needs q leave the same
\* per-batch quantities and write logs with the same (batch, quantity) pairs,
\* differing only in the source tag.
C27_SameFifoRule ==
    [][(handled' = handled + 1 /\ Removals # {}) =>
         /\ \E o \in FifoOrders(batches) :
                \A x \in Removals : RemovedByFifo(o, x[1], x[2])
         /\ \A i \in 1..Len(batches) :
                (\A x \in Removals : x[1] # batches[i].articleId) => batches'[i] = batches[i]
         /\ LogsExtended
         /\ \A k \in 1..Len(AppendedLogs) :
                /\ AppendedLogs[k].source = FlowTag
                /\ \E x \in Removals : x[1] = AppendedLogs[k].articleId]_vars

\* a manual consumption within stock that emptied one batch and took from a second
C27_Witness ==
    /\ last.op = "consumeFromArticle"
    /\ last.status = 200
    /\ last.remaining = Zero
    /\ Len(last.logs) = 2
    /\ last.logs[1].batchId # last.logs[2].batchId

\* a cooked ingredient taken from a batch
C27_CookWitness ==
    /\ last.op = "cookRecipe"
    /\ Len(last.consumed) >= 1
    /\ Len(logs) >= 1 /\ logs[Len(logs)].source = "RECIPE"

\* a deficit correction that took from a batch
C27_CorrectionWitness ==
    /\ last.op = "correctStock"
    /\ last.status = 200
    /\ last.message = "Stock decreased"
    /\ Len(last.logs) >= 1

(***************************************************************************)
(* The active shopping list.                                               *)
(***************************************************************************)
\* orderBy: { createdAt: 'desc' } with findFirst: the row created last
MostRecent(ids) == IF ids = {} THEN NoId ELSE CHOOSE i \in ids : \A j \in ids : j <= i

\* GET /dashboard: findFirst({ where: { status: 'ACTIVE' }, orderBy: { createdAt: 'desc' } })
DashboardShoppingList(ls) == MostRecent({i \in 1..Len(ls) : ls[i].status = "ACTIVE"})

\* GET /shopping-lists/active: findFirst({ where: { completedAt: null }, orderBy: ... })
ActiveShoppingList(ls) == MostRecent({i \in 1..Len(ls) : ls[i].completedAt = NoDate})

\* C28: the two active-list lookups agree: the dashboard's summary and GET
\* /shopping-lists/active either both report no list or both report the most
\* recently created list whose completedAt is null; a completed list is never
\* reported as the active list.
C28_ActiveLookupsAgree ==
    /\ DashboardShoppingList(lists) = ActiveShoppingList(lists)
    /\ DashboardShoppingList(lists) # NoId =>
           lists[DashboardShoppingList(lists)].completedAt = NoDate

(***************************************************************************)
(* SpecComplete: POST /shopping-lists/:id/complete as the steps its awaits  *)
(* separate, several requests in flight.                                   *)
(***************************************************************************)
\* up to the end of await prisma.shoppingList.findUnique and the two checks
BeginCompleteShoppingList(id) ==
    /\ handled < MaxShopRequests
    /\ IF id \notin 1..Len(lists)
       THEN /\ last' = Reply("completeShoppingList", 404, [listId |-> id])
            /\ UNCHANGED reqs
       ELSE IF AlreadyCompleted(lists[id])
       THEN /\ last' = Reply("completeShoppingList", 400, [listId |-> id])
            /\ UNCHANGED reqs
       ELSE /\ reqs' = Append(reqs, [op |-> "completeShoppingList", pc |-> "create",
                                     listId |-> id, items |-> PurchasedItems(lists[id])])
            /\ UNCHANGED last
    /\ handled' = handled + 1
    /\ UNCHANGED <<units, batches, logs, lists, mealPlan>>

\* await Promise.all(batchPromises): one batch per item the request has read
CompleteCreateStep(r) ==
    /\ r \in 1..Len(reqs)
    /\ reqs[r].op = "completeShoppingList" /\ reqs[r].pc = "create"
    /\ LET items == reqs[r].items
           created == [i \in 1..Len(items) |-> BatchOfItem(items[i], Now(batches))]
       IN  batches' = batches \o created
    /\ reqs' = [reqs EXCEPT ![r].pc = "mark"]
    /\ UNCHANGED <<units, logs, lists, mealPlan, last, handled>>

\* await prisma.shoppingList.update({ data: { completedAt: new Date() } }) and the reply
CompleteMarkStep(r) ==
    /\ r \in 1..Len(reqs)
    /\ reqs[r].op = "completeShoppingList" /\ reqs[r].pc = "mark"
    /\ lists' = [lists EXCEPT ![reqs[r].listId].completedAt = Now(batches)]
    /\ last' = Reply("completeShoppingList", 200, [listId |-> reqs[r].listId])
    /\ reqs' = RemoveAt(reqs, r)
    /\ UNCHANGED <<units, batches, logs, mealPlan, handled>>

\* request bodies of PUT /shopping-lists/:listId/items/:itemId that mark an item bought
PurchaseMarks == { [purchased |-> TRUE], [purchased |-> TRUE, quantity |-> Q(2)] }

NextComplete ==
    \/ GenerateShoppingList(ShopDate, PlanUntil)
    \/ \E l \in 1..Len(lists), body \in PurchaseMarks :
          \E i \in 1..Len(lists[l].items) : UpdateItem(<<l, i>>, body)
    \/ \E id \in 1..(Len(lists) + 1) : BeginCompleteShoppingList(id)
    \/ \E r \in 1..Len(reqs) : CompleteCreateStep(r)
    \/ \E r \in 1..Len(reqs) : CompleteMarkStep(r)

SpecComplete == Init /\ [][NextComplete]_vars

\* the purchased items of article a in the lists that count
PurchasedOf(a, counted) ==
    UNION {{<<l, i>> : i \in {j \in 1..Len(lists[l].items) :
                                  /\ lists[l].items[j].articleId = a
                                  /\ lists[l].items[j].isPurchased}} : l \in counted}

CompletedLists == {l \in 1..Len(lists) : lists[l].completedAt # NoDate}

BatchesOf(a) == {i \in 1..Len(batches) : batches[i].articleId = a}

\* C29: under any interleaving of two completeShoppingList requests for the same
\* list each purchased article-linked item yields exactly one batch in total, and
\* batch creation and the setting of completedAt take effect as one atomic step:
\* every batch belongs to a purchased item of a completed list, one batch per item.
C29_OneBatchPerItem ==
    \A a \in Articles :
        /\ Cardinality(BatchesOf(a)) <= Cardinality(PurchasedOf(a, CompletedLists))
        /\ reqs = <<>> =>
               Cardinality(BatchesOf(a)) = Cardinality(PurchasedOf(a, CompletedLists))

\* the part of C29 that counts the batches only: at most one batch per purchased item
C29_AtMostOneBatchPerItem ==
    \A a \in Articles :
        Cardinality(BatchesOf(a)) <= Cardinality(PurchasedOf(a, 1..Len(lists)))

(***************************************************************************)
(* Editing the needed quantity of a shopping-list item.                    *)
(***************************************************************************)
EditedItemBefore == lists[last'.itemId[1]].items[last'.itemId[2]]
EditedItemAfter == lists'[last'.itemId[1]].items[last'.itemId[2]]

\* a request that carries neededQuantity only and found its item
NeededQuantityEdited ==
    /\ Handled("updateItem")
    /\ last'.status = 200
    /\ DOMAIN last'.body = {"neededQuantity"}

Rescalable(item) ==
    /\ item.articleId # NoArticle
    /\ RPos(item.neededQuantity)
    /\ item.estimatedPrice # NullQ

\* (old estimatedPrice / old neededQuantity) x new neededQuantity
RescaledPrice(item, neededQuantity) ==
    RMul(RDiv(item.estimatedPrice, item.neededQuantity), neededQuantity)

\* to whole cents, halves upwards
ToCents(x) == Norm(Floor(RAdd(RMul(x, Q(100)), <<1, 2>>)), 100)

\* the edit sets neededQuantity and the price given, and nothing else
OnlyNeededQuantityAndPrice(price) ==
    /\ EditedItemAfter =
          [EditedItemBefore EXCEPT !.neededQuantity = last'.body.neededQuantity,
                                   !.estimatedPrice = price]
    /\ \A l \in 1..Len(lists) : \A i \in 1..Len(lists[l].items) :
           <<l, i>> # last'.itemId => lists'[l].items[i] = lists[l].items[i]
    /\ Len(lists') = Len(lists)
    /\ \A l \in 1..Len(lists) :
           /\ Len(lists'[l].items) = Len(lists[l].items)
           /\ lists'[l].completedAt = lists[l].completedAt
    /\ batches' = batches /\ logs' = logs

\* C30 as stated: updating an item's neededQuantity changes only neededQuantity and,
\* when the item has an article, a positive previous neededQuantity and a non-null
\* estimatedPrice, sets estimatedPrice to (old estimatedPrice / old neededQuantity)
\* x new neededQuantity; recommendedPacks, reason, purchase fields and all batches
\* stay unchanged.
C30_NeededQuantityEdit ==
    [][NeededQuantityEdited =>
         OnlyNeededQuantityAndPrice(
             IF Rescalable(EditedItemBefore)
             THEN RescaledPrice(EditedItemBefore, last'.body.neededQuantity)
             ELSE EditedItemBefore.estimatedPrice)]_vars

\* C30 amended: as C30, the rescaled estimatedPrice being rounded to 2 decimals.
C30_NeededQuantityEditRounded ==
    [][NeededQuantityEdited =>
         OnlyNeededQuantityAndPrice(
             IF Rescalable(EditedItemBefore)
             THEN ToCents(RescaledPrice(EditedItemBefore, last'.body.neededQuantity))
             ELSE EditedItemBefore.estimatedPrice)]_vars

\* an item of 6 for 5.00 edited to 4: 3.3333... is stored as 3.33
C30_Witness ==
    /\ last.op = "updateItem"
    /\ last.status = 200
    /\ DOMAIN last.body = {"neededQuantity"}
    /\ lists[last.itemId[1]].items[last.itemId[2]].articleId = "a2"
    /\ lists[last.itemId[1]].items[last.itemId[2]].neededQuantity = Q(4)
    /\ lists[last.itemId[1]].items[last.itemId[2]].estimatedPrice = <<333, 100>>

====
